---- MODULE Spec2Model ----
(***************************************************************************)
(* Protocol core of the matrix-workers homeserver: event authorization      *)
(* (services/event-auth.ts), the room-version registry                      *)
(* (services/room-versions.ts), state resolution                            *)
(* (services/state-resolution.ts, services/state-resolution-v1.ts), remote  *)
(* signing keys (services/federation-keys.ts), canonical JSON and signing   *)
(* (utils/crypto.ts), the queue consumer (consumers/federation-consumer.ts) *)
(* and the federation Durable Object (unnamed/part_001).                    *)
(*                                                                         *)
(* A PDU is a record.  A JavaScript object field that may be absent is a    *)
(* record field that may be absent: `x.f ?? d` reads                        *)
(* IF "f" \in DOMAIN x THEN x.f ELSE d.  A Map is the sequence of its       *)
(* values in insertion order (a JavaScript Map iterates in insertion        *)
(* order and Map.set on an existing key keeps the key's position).          *)
(***************************************************************************)
EXTENDS Integers, Sequences, FiniteSets, Bags, TLC

VARIABLES
    pc,              \* position of the caller: "input", then the name of the call made
    roomVersion,     \* the roomVersion argument of resolveState / checkEventAuth
    stateSets,       \* the stateSets argument of resolveState
    resolved,        \* the PDU[] returned by resolveState
    separated,       \* { unconflicted, conflicted } computed by resolveStateV2
    event,           \* the event argument of checkEventAuth
    roomState,       \* the roomState argument of checkEventAuth
    authResult,      \* the AuthResult returned by checkEventAuth
    otherState,      \* a second room state the same event is checked against
    otherResult,     \* the AuthResult returned for otherState
    newEvent,        \* arguments of resolveStateWithNewEvent
    currentState,
    authEvents,
    incremental,     \* StateResolutionResult of resolveStateWithNewEvent
    full,            \* StateResolutionResult of resolveState (state-resolution-v1.ts:93)
    clock,           \* Date.now(), counted in hours
    origin,          \* the key response the remote server serves at /_matrix/key/v2/server
    kvCache,         \* the KV entry federation:keys:<serverName>
    remote_server_keys, \* the rows of the D1 table remote_server_keys of that server
    calls,           \* the verifyRemoteSignature calls in progress, one per caller
    outbound,        \* the requests sent to remote homeservers' federation API
    jsonIn,          \* the value handed to canonicalJson / signJson
    jsonOut,         \* what the call returned
    batch,           \* the MessageBatch handed to handleFederationQueue
    sendResults,     \* the settled results of sendFederationTransaction, one per destination
    settlements,     \* per message of the batch, the ack() and retry() calls made on it
    dateNow,         \* Date.now() in the Durable Object, in milliseconds
    storage,         \* ctx.storage of the Durable Object: the queue:, edu: and server: entries
    alarmAt,         \* the time of the object's alarm, 0 when none is set
    transactions,    \* the bag of PUT /send requests awaiting their response, with the handler that waits
    history          \* what has happened: requests served, failed sends in a row, deliveries

resVars == <<stateSets, resolved, separated>>
authVars == <<event, roomState, authResult>>
incVars == <<newEvent, currentState, authEvents, incremental, full>>
depVars == <<otherState, otherResult>>
keyVars == <<clock, origin, kvCache, remote_server_keys, calls>>
fedVars == <<outbound>>
cryptoVars == <<jsonIn, jsonOut>>
consumerVars == <<batch, sendResults, settlements>>
objectVars == <<dateNow, storage, alarmAt, transactions, history>>
extVars == <<cryptoVars, consumerVars, objectVars>>
netVars == <<keyVars, fedVars, extVars>>

vars == <<pc, roomVersion, resVars, authVars, incVars, depVars, netVars>>

(***************************************************************************)
(* JavaScript values                                                        *)
(***************************************************************************)
\* the value `undefined` where a string is expected
Undefined == "undefined"
\* the value `undefined` / `null` where an object is expected
NoEvent == [undefined |-> TRUE]

Has(obj, f) == f \in DOMAIN obj
Get(obj, f, dflt) == IF f \in DOMAIN obj THEN obj[f] ELSE dflt

Range(s) == {s[i] : i \in 1..Len(s)}

RECURSIVE SeqFilter(_, _)
\* Array.prototype.filter with a membership test
SeqFilter(s, keep) ==
    IF s = << >> THEN << >>
    ELSE IF Head(s) \in keep THEN <<Head(s)>> \o SeqFilter(Tail(s), keep)
    ELSE SeqFilter(Tail(s), keep)

RECURSIVE Reverse(_)
Reverse(s) == IF s = << >> THEN << >> ELSE Reverse(Tail(s)) \o <<Head(s)>>

(***************************************************************************)
(* Lexicographic order of the event IDs the model uses.  The IDs are        *)
(* listed in ascending code-unit order, which is what `<` on JavaScript     *)
(* strings (and localeCompare on these lower-case ASCII IDs) computes.      *)
(***************************************************************************)
EventIdOrder ==
    <<"$cr", "$ja", "$jb", "$jr", "$lb", "$ma", "$mb", "$n1", "$n2", "$n3",
      "$p1", "$p2", "$p3", "$vb", "$x1", "$x2">>

\* the position of an event ID in the order: a.event_id < b.event_id reads
\* IdRank(a.event_id) < IdRank(b.event_id)
IdRank(id) == CHOOSE i \in 1..Len(EventIdOrder) : EventIdOrder[i] = id

(***************************************************************************)
(* services/room-versions.ts                                                *)
(***************************************************************************)
RoomVersionBehavior(v, sr, knock, restricted, intPl, knockRestricted) ==
    [version |-> v, stateResolution |-> sr, knockingSupported |-> knock,
     restrictedJoinsSupported |-> restricted, integerPowerLevels |-> intPl,
     knockRestrictedSupported |-> knockRestricted]

ROOM_VERSIONS ==
    [v \in {"1", "2", "3", "4", "5", "6", "7", "8", "9", "10", "11", "12"} |->
        CASE v = "1" -> RoomVersionBehavior(v, "v1", FALSE, FALSE, FALSE, FALSE)
          [] v \in {"2", "3", "4", "5", "6"} ->
                        RoomVersionBehavior(v, "v2", FALSE, FALSE, FALSE, FALSE)
          [] v = "7" -> RoomVersionBehavior(v, "v2", TRUE, FALSE, FALSE, FALSE)
          [] v \in {"8", "9"} ->
                        RoomVersionBehavior(v, "v2", TRUE, TRUE, FALSE, FALSE)
          [] OTHER   -> RoomVersionBehavior(v, "v2", TRUE, TRUE, TRUE, TRUE)]

\* returns null (NoEvent) for an unsupported version
getRoomVersion(version) ==
    IF version \in DOMAIN ROOM_VERSIONS THEN ROOM_VERSIONS[version] ELSE NoEvent

(***************************************************************************)
(* services/event-auth.ts                                                   *)
(***************************************************************************)
Allow == [allowed |-> TRUE]
Reject(msg) == [allowed |-> FALSE, error |-> msg]
\* `Insufficient power level for <type> (have <have>, need <need>)`
RejectPower(have, need) ==
    [allowed |-> FALSE, error |-> "Insufficient power level", have |-> have, need |-> need]

\* `${eventType}\0${stateKey}`
stateKey(eventType, key) == <<eventType, key>>

SlotOf(e) == stateKey(e.type, e.state_key)

\* Map.prototype.set that never replaces
MapSet_Append(map, e) == Append(map, e)

\* Map.prototype.set: replace the value of an existing key in place, else append
MapSet(map, e) ==
    IF \E i \in 1..Len(map) : SlotOf(map[i]) = SlotOf(e)
    THEN [i \in 1..Len(map) |-> IF SlotOf(map[i]) = SlotOf(e) THEN e ELSE map[i]]
    ELSE Append(map, e)

RECURSIVE BuildFrom(_, _)
BuildFrom(map, events) ==
    IF events = << >> THEN map
    ELSE BuildFrom(IF Has(Head(events), "state_key") THEN MapSet(map, Head(events)) ELSE map,
                   Tail(events))

\* events without state_key are skipped; a later event of a slot replaces an earlier one
buildStateMap(events) == BuildFrom(<< >>, events)

MapHas(state, type, key) == \E i \in 1..Len(state) : SlotOf(state[i]) = stateKey(type, key)

\* getState that returns the first event of the type, whatever its state_key
getState_AnyKey(state, type, key) ==
    IF \E i \in 1..Len(state) : state[i].type = type
    THEN state[CHOOSE i \in 1..Len(state) : state[i].type = type]
    ELSE NoEvent

getState(state, type, key) ==
    IF MapHas(state, type, key)
    THEN state[CHOOSE i \in 1..Len(state) : SlotOf(state[i]) = stateKey(type, key)]
    ELSE NoEvent

\* (ev?.content as RoomMemberContent)?.membership
MembershipOf(ev) ==
    IF ev = NoEvent THEN Undefined ELSE Get(ev.content, "membership", Undefined)

DefaultPowerLevels ==
    [users |-> << >>, users_default |-> 0, events |-> << >>, events_default |-> 0,
     state_default |-> 50, ban |-> 50, kick |-> 50, redact |-> 50, invite |-> 0]

getPowerLevels(state) ==
    IF MapHas(state, "m.room.power_levels", "")
    THEN getState(state, "m.room.power_levels", "").content
    ELSE DefaultPowerLevels

\* powerLevels.users?.[userId] ?? powerLevels.users_default ?? 0
getUserPowerLevel(powerLevels, userId) ==
    IF Has(powerLevels, "users") /\ userId \in DOMAIN powerLevels.users
    THEN powerLevels.users[userId]
    ELSE Get(powerLevels, "users_default", 0)

\* getEventPowerLevel without the lookup in powerLevels.events
getEventPowerLevel_DefaultsOnly(powerLevels, eventType, isState) ==
    IF isState THEN Get(powerLevels, "state_default", 50)
    ELSE Get(powerLevels, "events_default", 0)

getEventPowerLevel(powerLevels, eventType, isState) ==
    IF Has(powerLevels, "events") /\ eventType \in DOMAIN powerLevels.events
    THEN powerLevels.events[eventType]
    ELSE IF isState THEN Get(powerLevels, "state_default", 50)
    ELSE Get(powerLevels, "events_default", 0)

\* the truthiness of a string-valued field: absent (undefined) and "" are falsy
Truthy(obj, f) == Has(obj, f) /\ obj[f] # ""

\* checkCreateEvent that accepts any content
checkCreateEvent_AnyContent(ev, state) ==
    IF Has(ev, "prev_events") /\ Len(ev.prev_events) > 0
    THEN Reject("m.room.create must have no prev_events")
    ELSE IF Get(ev, "state_key", Undefined) # ""
    THEN Reject("m.room.create must have empty state_key")
    ELSE Allow

checkCreateEvent(ev, state) ==
    IF Has(ev, "prev_events") /\ Len(ev.prev_events) > 0
    THEN Reject("m.room.create must have no prev_events")
    ELSE IF Get(ev, "state_key", Undefined) # ""
    THEN Reject("m.room.create must have empty state_key")
    ELSE IF ~Truthy(ev.content, "room_version") /\ ~Truthy(ev.content, "creator")
    THEN Reject("m.room.create must have creator or room_version")
    ELSE Allow

\* MemberJoin without the check of the authorising user's power
MemberJoin_NoViaPower(ev, state, versionBehavior, powerLevels, senderMembership, joinRule) ==
    LET via == Get(ev.content, "join_authorised_via_users_server", Undefined)
    IN  IF ev.sender # ev.state_key
        THEN Reject("Cannot join on behalf of another user")
        ELSE IF senderMembership = "join" THEN Allow
        ELSE IF senderMembership = "invite" THEN Allow
        ELSE IF joinRule = "public" THEN Allow
        ELSE IF /\ versionBehavior.restrictedJoinsSupported
                /\ joinRule \in {"restricted", "knock_restricted"}
                /\ via # Undefined
                /\ MembershipOf(getState(state, "m.room.member", via)) = "join"
        THEN Allow
        ELSE Reject("Not authorized to join")

\* case 'join' of checkMemberEvent
MemberJoin(ev, state, versionBehavior, powerLevels, senderMembership, joinRule) ==
    LET via == Get(ev.content, "join_authorised_via_users_server", Undefined)
    IN  IF ev.sender # ev.state_key
        THEN Reject("Cannot join on behalf of another user")
        ELSE IF senderMembership = "join" THEN Allow
        ELSE IF senderMembership = "invite" THEN Allow
        ELSE IF joinRule = "public" THEN Allow
        ELSE IF /\ versionBehavior.restrictedJoinsSupported
                /\ joinRule \in {"restricted", "knock_restricted"}
                /\ via # Undefined
                /\ MembershipOf(getState(state, "m.room.member", via)) = "join"
                /\ getUserPowerLevel(powerLevels, via) >= Get(powerLevels, "invite", 0)
        THEN Allow
        ELSE Reject("Not authorized to join")

\* MemberInvite without the invite-level check
MemberInvite_NoLevel(senderMembership, targetMembership, senderPower, powerLevels) ==
    IF senderMembership # "join" THEN Reject("Sender must be joined to invite")
    ELSE IF targetMembership = "ban" THEN Reject("Cannot invite banned user")
    ELSE IF targetMembership = "join" THEN Reject("User is already joined")
    ELSE Allow

\* case 'invite' of checkMemberEvent
MemberInvite(senderMembership, targetMembership, senderPower, powerLevels) ==
    IF senderMembership # "join" THEN Reject("Sender must be joined to invite")
    ELSE IF targetMembership = "ban" THEN Reject("Cannot invite banned user")
    ELSE IF targetMembership = "join" THEN Reject("User is already joined")
    ELSE IF senderPower < Get(powerLevels, "invite", 0)
    THEN Reject("Insufficient power level to invite")
    ELSE Allow

\* the unban branch of case 'leave': the target is currently banned
MemberUnban(senderPower, targetPower, powerLevels) ==
    IF senderPower < Get(powerLevels, "ban", 50)
    THEN Reject("Insufficient power level to unban")
    ELSE Allow

\* case 'leave' of checkMemberEvent
MemberLeave(ev, versionBehavior, senderMembership, targetMembership, senderPower, targetPower, powerLevels) ==
    IF ev.sender = ev.state_key
    THEN IF senderMembership \in {"join", "invite"} THEN Allow
         ELSE IF versionBehavior.knockingSupported /\ senderMembership = "knock" THEN Allow
         ELSE Reject("Not a member of the room")
    ELSE IF senderMembership # "join" THEN Reject("Sender must be joined to kick")
    ELSE IF targetMembership = "ban"
    THEN MemberUnban(senderPower, targetPower, powerLevels)
    ELSE IF senderPower < Get(powerLevels, "kick", 50)
    THEN Reject("Insufficient power level to kick")
    ELSE IF senderPower <= targetPower
    THEN Reject("Cannot kick user with equal or higher power")
    ELSE Allow

\* MemberBan with `<` for `<=` in the comparison with the target's power
MemberBan_NonStrict(senderMembership, senderPower, targetPower, powerLevels) ==
    IF senderMembership # "join" THEN Reject("Sender must be joined to ban")
    ELSE IF senderPower < Get(powerLevels, "ban", 50)
    THEN Reject("Insufficient power level to ban")
    ELSE IF senderPower < targetPower
    THEN Reject("Cannot ban user with equal or higher power")
    ELSE Allow

\* case 'ban' of checkMemberEvent
MemberBan(senderMembership, senderPower, targetPower, powerLevels) ==
    IF senderMembership # "join" THEN Reject("Sender must be joined to ban")
    ELSE IF senderPower < Get(powerLevels, "ban", 50)
    THEN Reject("Insufficient power level to ban")
    ELSE IF senderPower <= targetPower
    THEN Reject("Cannot ban user with equal or higher power")
    ELSE Allow

\* MemberKnock without the room-version check
MemberKnock_AnyVersion(ev, versionBehavior, senderMembership, joinRule) ==
    IF ev.sender # ev.state_key THEN Reject("Cannot knock on behalf of another user")
    ELSE IF joinRule \notin {"knock", "knock_restricted"}
    THEN Reject("Room does not allow knocking")
    ELSE IF senderMembership = "ban" THEN Reject("Banned users cannot knock")
    ELSE IF senderMembership = "join" THEN Reject("Already joined")
    ELSE Allow

\* case 'knock' of checkMemberEvent
MemberKnock(ev, versionBehavior, senderMembership, joinRule) ==
    IF ~versionBehavior.knockingSupported
    THEN Reject("Knocking not supported in this room version")
    ELSE IF ev.sender # ev.state_key THEN Reject("Cannot knock on behalf of another user")
    ELSE IF joinRule \notin {"knock", "knock_restricted"}
    THEN Reject("Room does not allow knocking")
    ELSE IF senderMembership = "ban" THEN Reject("Banned users cannot knock")
    ELSE IF senderMembership = "join" THEN Reject("Already joined")
    ELSE Allow

checkMemberEvent(ev, state, versionBehavior) ==
    LET membership       == Get(ev.content, "membership", Undefined)
        powerLevels      == getPowerLevels(state)
        senderPower      == getUserPowerLevel(powerLevels, ev.sender)
        targetPower      == getUserPowerLevel(powerLevels, ev.state_key)
        senderMembership == MembershipOf(getState(state, "m.room.member", ev.sender))
        targetMembership == MembershipOf(getState(state, "m.room.member", ev.state_key))
        joinRulesEvent   == getState(state, "m.room.join_rules", "")
        \* joinRulesEvent?.content || { join_rule: 'invite' }
        joinRule         == IF joinRulesEvent = NoEvent THEN "invite"
                            ELSE Get(joinRulesEvent.content, "join_rule", Undefined)
    IN  CASE membership = Undefined -> Reject("Missing membership in content")
          [] membership = "join" ->
                MemberJoin(ev, state, versionBehavior, powerLevels, senderMembership, joinRule)
          [] membership = "invite" ->
                MemberInvite(senderMembership, targetMembership, senderPower, powerLevels)
          [] membership = "leave" ->
                MemberLeave(ev, versionBehavior, senderMembership, targetMembership,
                            senderPower, targetPower, powerLevels)
          [] membership = "ban" ->
                MemberBan(senderMembership, senderPower, targetPower, powerLevels)
          [] membership = "knock" ->
                MemberKnock(ev, versionBehavior, senderMembership, joinRule)
          [] OTHER -> Reject("Unknown membership")

checkThirdPartyInvite(ev, state) ==
    LET powerLevels == getPowerLevels(state)
        senderPower == getUserPowerLevel(powerLevels, ev.sender)
    IN  IF MembershipOf(getState(state, "m.room.member", ev.sender)) # "join"
        THEN Reject("Sender must be joined")
        ELSE IF senderPower < Get(powerLevels, "invite", 0)
        THEN Reject("Insufficient power level for third party invite")
        ELSE Allow

(***************************************************************************)
(* Numbers of a power-levels content.  A level is an integer n, written n,   *)
(* or the non-integer n + 1/2, written Half(n); the integers of the model    *)
(* stay below the range of the Half values.                                  *)
(***************************************************************************)
Half(n) == 1000 + n

\* a test that takes every number for an integer
IsInteger_Always(val) == TRUE

\* Number.isInteger
IsInteger(val) == val < Half(0)

\* twice the number: an integer for both kinds of value
Twice(val) == IF val >= Half(0) THEN 2 * (val - Half(0)) + 1 ELSE 2 * val

\* a < b on numbers
NumLess(a, b) == Twice(a) < Twice(b)

PowerLevelScalars ==
    {"ban", "events_default", "invite", "kick", "redact", "state_default", "users_default"}

\* the values the integer check looks at: the level scalars, the entries of
\* events and users, and notifications.room
AllValues(newPl) ==
    {newPl[f] : f \in PowerLevelScalars \cap DOMAIN newPl}
    \cup {newPl.events[t] : t \in DOMAIN Get(newPl, "events", << >>)}
    \cup {newPl.users[u] : u \in DOMAIN Get(newPl, "users", << >>)}
    \cup (IF Has(newPl, "notifications") /\ Has(newPl.notifications, "room")
          THEN {newPl.notifications.room} ELSE {})

\* the loop over newPl.users, first check: an entry above the sender's power
SetsUserAboveOwn(ev, senderPower) ==
    LET newUsers == Get(ev.content, "users", << >>)
    IN  \E u \in DOMAIN newUsers : NumLess(senderPower, newUsers[u])

\* the loop over newPl.users, second check: the entry of another user differs
\* from that user's old level, and the old level is not below the sender's power
ChangesUserOfEqualOrHigherPower(ev, currentPl, senderPower) ==
    LET newUsers == Get(ev.content, "users", << >>)
        oldLevel(u) == getUserPowerLevel(currentPl, u)
    IN  \E u \in DOMAIN newUsers :
            oldLevel(u) # newUsers[u] /\ u # ev.sender /\ senderPower <= oldLevel(u)

\* Power level change escalation prevention.  The loops return at the first
\* failing entry; which entry fails first changes the error text only.
checkPowerLevelChange(ev, state, senderPower, versionBehavior) ==
    LET newPl        == ev.content
        currentPlEv  == getState(state, "m.room.power_levels", "")
        currentPl    == IF currentPlEv = NoEvent THEN << >> ELSE currentPlEv.content
        newEvents    == Get(newPl, "events", << >>)
    IN  IF versionBehavior.integerPowerLevels /\ \E val \in AllValues(newPl) : ~IsInteger(val)
        THEN Reject("Power levels must be integers in this room version")
        ELSE IF SetsUserAboveOwn(ev, senderPower)
        THEN Reject("Cannot set user power level higher than own")
        ELSE IF ChangesUserOfEqualOrHigherPower(ev, currentPl, senderPower)
        THEN Reject("Cannot change power of user with equal or higher power")
        ELSE IF \E f \in PowerLevelScalars \cap DOMAIN newPl : NumLess(senderPower, newPl[f])
        THEN Reject("Cannot set power level higher than own")
        ELSE IF \E t \in DOMAIN newEvents : NumLess(senderPower, newEvents[t])
        THEN Reject("Cannot set power level higher than own")
        ELSE Allow

\* Rule 6
checkStateEventPower(ev, state, versionBehavior) ==
    LET powerLevels   == getPowerLevels(state)
        senderPower   == getUserPowerLevel(powerLevels, ev.sender)
        requiredPower == getEventPowerLevel(powerLevels, ev.type, TRUE)
    IN  IF senderPower < requiredPower THEN RejectPower(senderPower, requiredPower)
        ELSE IF ev.type = "m.room.power_levels"
        THEN checkPowerLevelChange(ev, state, senderPower, versionBehavior)
        ELSE Allow

\* Rule 7
checkNonStateEventPower(ev, state) ==
    LET powerLevels   == getPowerLevels(state)
        senderPower   == getUserPowerLevel(powerLevels, ev.sender)
        requiredPower == getEventPowerLevel(powerLevels, ev.type, FALSE)
        redactPower   == Get(powerLevels, "redact", 50)
    IN  IF senderPower < requiredPower THEN RejectPower(senderPower, requiredPower)
        ELSE IF ev.type = "m.room.redaction" /\ senderPower < redactPower
        THEN RejectPower(senderPower, redactPower)
        ELSE Allow

\* checkJoinedSender without rule 4
checkJoinedSender_AnyMembership(ev, state, versionBehavior) ==
    IF ev.type = "m.room.third_party_invite" THEN checkThirdPartyInvite(ev, state)
    ELSE IF Has(ev, "state_key") THEN checkStateEventPower(ev, state, versionBehavior)
    ELSE checkNonStateEventPower(ev, state)

\* Rules 4 to 7: the sender must be joined, then the power checks
checkJoinedSender(ev, state, versionBehavior) ==
    IF MembershipOf(getState(state, "m.room.member", ev.sender)) # "join"
    THEN Reject("Sender is not joined to the room")
    ELSE IF ev.type = "m.room.third_party_invite" THEN checkThirdPartyInvite(ev, state)
    ELSE IF Has(ev, "state_key") THEN checkStateEventPower(ev, state, versionBehavior)
    ELSE checkNonStateEventPower(ev, state)

checkEventAuth(ev, roomStateArg, roomVersionArg) ==
    LET state           == buildStateMap(roomStateArg)
        \* getRoomVersion(roomVersion ?? '10')
        versionBehavior == getRoomVersion(IF roomVersionArg = Undefined THEN "10"
                                          ELSE roomVersionArg)
    IN  IF versionBehavior = NoEvent THEN Reject("Unsupported room version")
        ELSE IF ev.type = "m.room.create" THEN checkCreateEvent(ev, state)
        ELSE IF ~MapHas(state, "m.room.create", "")
        THEN Reject("No m.room.create event in room state")
        ELSE IF ev.type = "m.room.member" THEN checkMemberEvent(ev, state, versionBehavior)
        ELSE checkJoinedSender(ev, state, versionBehavior)

(***************************************************************************)
(* Array.prototype.sort.  Every comparator of the program compares a tuple   *)
(* of numbers per element (with the event ID last, by its rank), so the      *)
(* sort takes the tuple of each element.  The sort is stable, as the         *)
(* JavaScript sort is.                                                       *)
(***************************************************************************)
RECURSIVE KeyLess(_, _)
\* the comparator returns a negative number: k1 sorts before k2
KeyLess(k1, k2) ==
    IF k1 = << >> THEN FALSE
    ELSE IF Head(k1) # Head(k2) THEN Head(k1) < Head(k2)
    ELSE KeyLess(Tail(k1), Tail(k2))

RECURSIVE InsertSorted(_, _)
\* x goes after every element that does not sort after it
InsertSorted(x, sorted) ==
    IF sorted = << >> THEN <<x>>
    ELSE IF KeyLess(x.key, Head(sorted).key) THEN <<x>> \o sorted
    ELSE <<Head(sorted)>> \o InsertSorted(x, Tail(sorted))

RECURSIVE SortKeyed(_, _)
SortKeyed(items, sorted) ==
    IF items = << >> THEN sorted
    ELSE SortKeyed(Tail(items), InsertSorted(Head(items), sorted))

\* events sorted by keyOf[i], the tuple of events[i]
SortEvents(events, keyOf) ==
    LET items  == [i \in 1..Len(events) |-> [key |-> keyOf[i], ev |-> events[i]]]
        sorted == SortKeyed(items, << >>)
    IN  [i \in 1..Len(sorted) |-> sorted[i].ev]

(***************************************************************************)
(* services/state-resolution-v1.ts, lines 1-49: resolveStateV1              *)
(***************************************************************************)
\* allState after one more event: the event joins the list of its slot unless
\* an event of the same ID is already there
AddToSlot(allState, ev) ==
    IF ~Has(ev, "state_key") THEN allState
    ELSE IF \E g \in 1..Len(allState) : SlotOf(allState[g][1]) = SlotOf(ev)
    THEN [g \in 1..Len(allState) |->
            IF SlotOf(allState[g][1]) = SlotOf(ev)
               /\ \A i \in 1..Len(allState[g]) : allState[g][i].event_id # ev.event_id
            THEN Append(allState[g], ev)
            ELSE allState[g]]
    ELSE Append(allState, <<ev>>)

RECURSIVE CollectSlots(_, _)
CollectSlots(allState, events) ==
    IF events = << >> THEN allState
    ELSE CollectSlots(AddToSlot(allState, Head(events)), Tail(events))

RECURSIVE Flatten(_)
Flatten(sets) == IF sets = << >> THEN << >> ELSE Head(sets) \o Flatten(Tail(sets))

\* DepthOrder with the depths ascending
DepthOrder_Ascending(events) ==
    SortEvents(events, [i \in 1..Len(events) |->
                           <<events[i].depth, IdRank(events[i].event_id)>>])

\* depth descending, then event_id ascending
DepthOrder(events) ==
    SortEvents(events, [i \in 1..Len(events) |->
                           <<0 - events[i].depth, IdRank(events[i].event_id)>>])

resolveStateV1(sets) ==
    LET allState == CollectSlots(<< >>, Flatten(sets))
    IN  [g \in 1..Len(allState) |->
            IF Len(allState[g]) = 1 THEN allState[g][1] ELSE DepthOrder(allState[g])[1]]

(***************************************************************************)
(* services/state-resolution.ts: state resolution v2                        *)
(***************************************************************************)
AUTH_EVENT_TYPES ==
    {"m.room.create", "m.room.power_levels", "m.room.join_rules", "m.room.member",
     "m.room.third_party_invite"}

isAuthEvent(ev) == ev.type \in AUTH_EVENT_TYPES

RECURSIVE AllKeys(_, _)
\* the slots of the maps, in order of first insertion
AllKeys(keys, events) ==
    IF events = << >> THEN keys
    ELSE AllKeys(IF \E i \in 1..Len(keys) : keys[i] = SlotOf(Head(events))
                 THEN keys ELSE Append(keys, SlotOf(Head(events))),
                 Tail(events))

RECURSIVE DedupeById(_, _)
DedupeById(seen, events) ==
    IF events = << >> THEN seen
    ELSE DedupeById(IF \E i \in 1..Len(seen) : seen[i].event_id = Head(events).event_id
                    THEN seen ELSE Append(seen, Head(events)),
                    Tail(events))

\* the events the maps hold for a slot, in the order of the maps
EventsOfSlot(maps, key) ==
    LET present == SeqFilter([m \in 1..Len(maps) |-> getState(maps[m], key[1], key[2])],
                             {getState(maps[m], key[1], key[2]) : m \in 1..Len(maps)}
                                \ {NoEvent})
    IN  present

\* IsUnconflicted without the test that every map holds the slot
IsUnconflicted_IgnoreMissing(events, nMaps) ==
    Cardinality({events[i].event_id : i \in 1..Len(events)}) = 1

\* IsUnconflicted that takes the number of events for the number of distinct IDs
IsUnconflicted_SingleEvent(events, nMaps) ==
    Len(events) = 1 /\ Len(events) = nMaps

\* eventIds.size === 1 && events.length === maps.length
IsUnconflicted(events, nMaps) ==
    Cardinality({events[i].event_id : i \in 1..Len(events)}) = 1 /\ Len(events) = nMaps

separateState(sets) ==
    LET maps    == [m \in 1..Len(sets) |-> buildStateMap(sets[m])]
        allKeys == AllKeys(<< >>, Flatten(maps))
        evs(k)  == EventsOfSlot(maps, allKeys[k])
        unconfK == SeqFilter([k \in 1..Len(allKeys) |-> k],
                             {k \in 1..Len(allKeys) : IsUnconflicted(evs(k), Len(maps))})
        confK   == SeqFilter([k \in 1..Len(allKeys) |-> k],
                             {k \in 1..Len(allKeys) : ~IsUnconflicted(evs(k), Len(maps))})
    IN  [unconflicted |-> [i \in 1..Len(unconfK) |-> evs(unconfK[i])[1]],
         conflicted   |-> [i \in 1..Len(confK) |-> DedupeById(<< >>, evs(confK[i]))]]

\* events.find(e => e.type === 'm.room.power_levels')?.content, else the default
SortPowerLevels(events) ==
    IF \E i \in 1..Len(events) : events[i].type = "m.room.power_levels"
    THEN events[CHOOSE i \in 1..Len(events) :
                   /\ events[i].type = "m.room.power_levels"
                   /\ \A j \in 1..(i - 1) : events[j].type # "m.room.power_levels"].content
    ELSE [users |-> << >>, users_default |-> 0]

\* sender power descending, origin_server_ts ascending, event_id ascending
reverseTopologicalPowerOrder(events) ==
    LET powerLevels == SortPowerLevels(events)
    IN  SortEvents(events,
            [i \in 1..Len(events) |->
                <<0 - getUserPowerLevel(powerLevels, events[i].sender),
                  events[i].origin_server_ts,
                  IdRank(events[i].event_id)>>])

RECURSIVE ApplyAuthorized(_, _, _)
\* the loops of steps 3 and 4: each event in order is checked against the
\* partial state and set in it when allowed
ApplyAuthorized(resolvedState, sorted, version) ==
    IF sorted = << >> THEN resolvedState
    ELSE LET ev == Head(sorted)
         IN  ApplyAuthorized(
                IF Has(ev, "state_key") /\ checkEventAuth(ev, resolvedState, version).allowed
                THEN MapSet(resolvedState, ev) ELSE resolvedState,
                Tail(sorted), version)

resolveStateV2(sets, version) ==
    IF Len(sets) = 0 THEN << >>
    ELSE IF Len(sets) = 1 THEN sets[1]
    ELSE LET sep            == separateState(sets)
             conflictedAll  == Flatten(sep.conflicted)
             conflictedAuth == SeqFilter(conflictedAll,
                                  {e \in Range(conflictedAll) : isAuthEvent(e)})
             conflictedOth  == SeqFilter(conflictedAll,
                                  {e \in Range(conflictedAll) : ~isAuthEvent(e)})
             afterAuth      == ApplyAuthorized(sep.unconflicted,
                                  reverseTopologicalPowerOrder(conflictedAuth), version)
         IN  IF Len(sep.conflicted) = 0 THEN sep.unconflicted
             ELSE ApplyAuthorized(afterAuth,
                                  reverseTopologicalPowerOrder(conflictedOth), version)

\* !version || version.stateResolution === 'v1'
UsesV1(version) ==
    getRoomVersion(version) = NoEvent \/ getRoomVersion(version).stateResolution = "v1"

resolveState(version, sets) ==
    IF UsesV1(version) THEN resolveStateV1(sets) ELSE resolveStateV2(sets, version)

(***************************************************************************)
(* ./authorization (checkEventAuthorization, buildAuthStateFromEvents) is    *)
(* imported by state-resolution-v1.ts and is not among the source files.     *)
(* It is modelled from the authorization rules of the specification (4.4).  *)
(***************************************************************************)
\* the auth state is the list of the auth events handed in
buildAuthStateFromEvents(events) == buildStateMap(events)

\* the room version named by the create event of the auth state
AuthStateVersion(state) ==
    LET create == getState(state, "m.room.create", "")
    IN  IF create # NoEvent /\ Has(create.content, "room_version")
           /\ create.content.room_version \in DOMAIN ROOM_VERSIONS
        THEN ROOM_VERSIONS[create.content.room_version]
        ELSE ROOM_VERSIONS["1"]

\* without a power-levels event the create sender has power 100, everyone else 0
RulePowerOf(state, userId) ==
    IF MapHas(state, "m.room.power_levels", "")
    THEN getUserPowerLevel(getState(state, "m.room.power_levels", "").content, userId)
    ELSE IF MapHas(state, "m.room.create", "")
            /\ getState(state, "m.room.create", "").sender = userId
    THEN 100 ELSE 0

RuleLevels(state) ==
    IF MapHas(state, "m.room.power_levels", "")
    THEN getState(state, "m.room.power_levels", "").content
    ELSE DefaultPowerLevels

RuleJoinRule(state) ==
    IF MapHas(state, "m.room.join_rules", "")
    THEN Get(getState(state, "m.room.join_rules", "").content, "join_rule", Undefined)
    ELSE "invite"

\* rule 2 of 4.4: the membership state machine
RuleMember(ev, state) ==
    LET version    == AuthStateVersion(state)
        levels     == RuleLevels(state)
        membership == Get(ev.content, "membership", Undefined)
        senderM    == MembershipOf(getState(state, "m.room.member", ev.sender))
        targetM    == MembershipOf(getState(state, "m.room.member", ev.state_key))
        senderP    == RulePowerOf(state, ev.sender)
        targetP    == RulePowerOf(state, ev.state_key)
        rule       == RuleJoinRule(state)
        via        == Get(ev.content, "join_authorised_via_users_server", Undefined)
    IN  CASE membership = "join" ->
                /\ ev.sender = ev.state_key
                /\ \/ senderM \in {"join", "invite"}
                   \/ rule = "public"
                   \/ /\ version.restrictedJoinsSupported
                      /\ rule \in {"restricted", "knock_restricted"}
                      /\ via # Undefined
                      /\ MembershipOf(getState(state, "m.room.member", via)) = "join"
                      /\ RulePowerOf(state, via) >= Get(levels, "invite", 0)
          [] membership = "invite" ->
                /\ senderM = "join" /\ targetM \notin {"ban", "join"}
                /\ senderP >= Get(levels, "invite", 0)
          [] membership = "leave" ->
                IF ev.sender = ev.state_key
                THEN \/ senderM \in {"join", "invite"}
                     \/ version.knockingSupported /\ senderM = "knock"
                ELSE /\ senderM = "join"
                     /\ senderP >= (IF targetM = "ban" THEN Get(levels, "ban", 50)
                                    ELSE Get(levels, "kick", 50))
                     /\ senderP > targetP
          [] membership = "ban" ->
                senderM = "join" /\ senderP >= Get(levels, "ban", 50) /\ senderP > targetP
          [] membership = "knock" ->
                /\ version.knockingSupported
                /\ ev.sender = ev.state_key
                /\ rule \in {"knock", "knock_restricted"}
                /\ senderM \notin {"ban", "join"}
          [] OTHER -> FALSE

\* the entries of a power-levels content as a function from paths to values
LevelEntries(pl) ==
    LET scalars == PowerLevelScalars \cap DOMAIN pl
        maps    == {"events", "users", "notifications"} \cap DOMAIN pl
        paths   == {<<f>> : f \in scalars} \cup
                   {<<m, k>> : m \in maps, k \in UNION {DOMAIN pl[n] : n \in maps}}
    IN  [p \in {q \in paths : Len(q) = 1 \/ q[2] \in DOMAIN pl[q[1]]} |->
            IF Len(p) = 1 THEN pl[p[1]] ELSE pl[p[1]][p[2]]]

\* rule 7 of 4.4: the power-level escalation guard
RuleEscalation(ev, state, senderP) ==
    LET version == AuthStateVersion(state)
        old     == IF MapHas(state, "m.room.power_levels", "")
                   THEN LevelEntries(getState(state, "m.room.power_levels", "").content)
                   ELSE << >>
        new     == LevelEntries(ev.content)
        oldPl   == IF MapHas(state, "m.room.power_levels", "")
                   THEN getState(state, "m.room.power_levels", "").content ELSE << >>
    IN  /\ \A p \in DOMAIN new : new[p] <= senderP
        /\ \A p \in DOMAIN old :
              old[p] > senderP => (p \in DOMAIN new /\ new[p] = old[p])
        /\ \A p \in DOMAIN new \cup DOMAIN old :
              (/\ p[1] = "users" /\ Len(p) = 2 /\ p[2] # ev.sender
               /\ (p \notin DOMAIN new \/ p \notin DOMAIN old \/ new[p] # old[p]))
              => getUserPowerLevel(oldPl, p[2]) < senderP
        /\ version.integerPowerLevels => \A p \in DOMAIN new : IsInteger(new[p])

\* authorize(event, auth_state) of 4.4: the rules in order, first failure wins
checkEventAuthorization(ev, authState) ==
    LET levels   == RuleLevels(authState)
        senderP  == RulePowerOf(authState, ev.sender)
        required == getEventPowerLevel(levels, ev.type, Has(ev, "state_key"))
        ok ==
            IF ev.type = "m.room.create" THEN checkCreateEvent(ev, authState).allowed
            ELSE IF ~MapHas(authState, "m.room.create", "") THEN FALSE
            ELSE IF ev.type = "m.room.member" THEN RuleMember(ev, authState)
            ELSE IF MembershipOf(getState(authState, "m.room.member", ev.sender)) # "join"
            THEN FALSE
            ELSE IF ev.type = "m.room.third_party_invite"
            THEN senderP >= Get(levels, "invite", 0)
            ELSE IF senderP < required THEN FALSE
            ELSE IF ev.type = "m.room.power_levels" /\ Has(ev, "state_key")
            THEN RuleEscalation(ev, authState, senderP)
            ELSE IF ev.type = "m.room.redaction"
            THEN senderP >= Get(levels, "redact", 50)
            ELSE TRUE
    IN  [authorized |-> ok]

(***************************************************************************)
(* services/state-resolution-v1.ts, lines 51-488: the state resolution      *)
(* module that gates on checkEventAuthorization.  Its resolveState and      *)
(* separateState carry the prefix SR2_ here, state-resolution.ts defining   *)
(* functions of the same names.                                             *)
(***************************************************************************)
\* new Map keyed by event_id: a later event of the same ID takes the earlier one's place
AuthEventMap(events) ==
    LET firstAt(i) == \A j \in 1..(i - 1) : events[j].event_id # events[i].event_id
        lastOf(i)  == events[CHOOSE j \in i..Len(events) :
                                /\ events[j].event_id = events[i].event_id
                                /\ \A k \in (j + 1)..Len(events) :
                                      events[k].event_id # events[i].event_id]
        firsts     == SeqFilter([i \in 1..Len(events) |-> i],
                                {i \in 1..Len(events) : firstAt(i)})
    IN  [n \in 1..Len(firsts) |-> lastOf(firsts[n])]

\* Array.from(map.values()).find(pred), NoEvent when nothing is found
FindFirst(events, matching) ==
    IF \E i \in 1..Len(events) : events[i] \in matching
    THEN events[CHOOSE i \in 1..Len(events) :
                   events[i] \in matching /\ \A j \in 1..(i - 1) : events[j] \notin matching]
    ELSE NoEvent

\* currentResolved.get(type, key) || the first auth event of that type and key
ResolvedOrAuthEvent(type, key, currentResolved, authEventMap) ==
    IF MapHas(currentResolved, type, key) THEN getState(currentResolved, type, key)
    ELSE FindFirst(authEventMap,
                   {e \in Range(authEventMap) :
                       e.type = type /\ Has(e, "state_key") /\ e.state_key = key})

\* currentResolved.get(create) || the first auth event of type m.room.create
ResolvedOrAuthCreate(currentResolved, authEventMap) ==
    IF MapHas(currentResolved, "m.room.create", "")
    THEN getState(currentResolved, "m.room.create", "")
    ELSE FindFirst(authEventMap, {e \in Range(authEventMap) : e.type = "m.room.create"})

getSenderPowerLevel(userId, currentResolved, authEventMap) ==
    LET powerLevelsEvent ==
            ResolvedOrAuthEvent("m.room.power_levels", "", currentResolved, authEventMap)
        createEvent == ResolvedOrAuthCreate(currentResolved, authEventMap)
    IN  IF powerLevelsEvent = NoEvent
        THEN IF createEvent # NoEvent /\ Has(createEvent.content, "creator")
                /\ createEvent.content.creator = userId
             THEN 100 ELSE 0
        ELSE getUserPowerLevel(powerLevelsEvent.content, userId)

buildAuthStateForEvent(ev, currentResolved, authEventMap) ==
    LET one(e)  == IF e = NoEvent THEN << >> ELSE <<e>>
        create  == ResolvedOrAuthCreate(currentResolved, authEventMap)
        levels  == ResolvedOrAuthEvent("m.room.power_levels", "", currentResolved, authEventMap)
        rules   == ResolvedOrAuthEvent("m.room.join_rules", "", currentResolved, authEventMap)
        sender  == ResolvedOrAuthEvent("m.room.member", ev.sender, currentResolved, authEventMap)
        target  == IF /\ ev.type = "m.room.member" /\ Has(ev, "state_key")
                      /\ ev.state_key # "" /\ ev.state_key # ev.sender
                   THEN ResolvedOrAuthEvent("m.room.member", ev.state_key,
                                            currentResolved, authEventMap)
                   ELSE NoEvent
    IN  buildAuthStateFromEvents(one(create) \o one(levels) \o one(rules)
                                 \o one(sender) \o one(target))

\* compareEventsForResolution as the tuple it orders by: sender power
\* descending, origin_server_ts ascending, event_id ascending
ResolutionOrder(events, currentResolved, authEventMap) ==
    SortEvents(events,
        [i \in 1..Len(events) |->
            <<0 - getSenderPowerLevel(events[i].sender, currentResolved, authEventMap),
              events[i].origin_server_ts,
              IdRank(events[i].event_id)>>])

RECURSIVE FirstAuthorized(_, _, _, _)
\* the loop of resolveConflict: the first event that passes auth wins, the
\* events before it are pushed on rejectedEvents
FirstAuthorized(sorted, currentResolved, authEventMap, rejectedEvents) ==
    IF sorted = << >> THEN [winner |-> NoEvent, rejectedEvents |-> rejectedEvents]
    ELSE IF checkEventAuthorization(Head(sorted),
                buildAuthStateForEvent(Head(sorted), currentResolved, authEventMap)).authorized
    THEN [winner |-> Head(sorted), rejectedEvents |-> rejectedEvents]
    ELSE FirstAuthorized(Tail(sorted), currentResolved, authEventMap,
                         Append(rejectedEvents, Head(sorted)))

resolveConflict(conflictingEvents, currentResolved, authEventMap, rejectedEvents) ==
    FirstAuthorized(ResolutionOrder(conflictingEvents, currentResolved, authEventMap),
                    currentResolved, authEventMap, rejectedEvents)

SR2_separateState(sets) ==
    LET maps    == [m \in 1..Len(sets) |-> buildStateMap(sets[m])]
        allKeys == AllKeys(<< >>, Flatten(maps))
        evs(k)  == DedupeById(<< >>, EventsOfSlot(maps, allKeys[k]))
        unconfK == SeqFilter([k \in 1..Len(allKeys) |-> k],
                             {k \in 1..Len(allKeys) : Len(evs(k)) = 1})
        confK   == SeqFilter([k \in 1..Len(allKeys) |-> k],
                             {k \in 1..Len(allKeys) : Len(evs(k)) > 1})
    IN  [unconflicted |-> [i \in 1..Len(unconfK) |-> evs(unconfK[i])[1]],
         conflicted   |-> [i \in 1..Len(confK) |-> evs(confK[i])]]

RECURSIVE ResolveEach(_, _, _, _)
\* step 3 of resolveState: each conflicted slot in turn, against the state
\* resolved so far
ResolveEach(conflicted, resolvedMap, authEventMap, rejectedEvents) ==
    IF conflicted = << >>
    THEN [resolvedState |-> resolvedMap, hadConflicts |-> TRUE,
          rejectedEvents |-> rejectedEvents]
    ELSE LET r == resolveConflict(Head(conflicted), resolvedMap, authEventMap, rejectedEvents)
         IN  ResolveEach(Tail(conflicted),
                         IF r.winner = NoEvent THEN resolvedMap
                         ELSE MapSet(resolvedMap, r.winner),
                         authEventMap, r.rejectedEvents)

NoConflict(state) ==
    [resolvedState |-> state, hadConflicts |-> FALSE, rejectedEvents |-> << >>]

SR2_resolveState(sets, authEventsArg) ==
    IF Len(sets) = 0 THEN NoConflict(<< >>)
    ELSE IF Len(sets) = 1 THEN NoConflict(sets[1])
    ELSE LET sep == SR2_separateState(sets)
         IN  IF Len(sep.conflicted) = 0 THEN NoConflict(sep.unconflicted)
             ELSE ResolveEach(sep.conflicted, sep.unconflicted,
                              AuthEventMap(authEventsArg), << >>)

\* currentState without the events of the slot
WithoutSlot(currentStateArg, ev) ==
    SeqFilter(currentStateArg,
              {e \in Range(currentStateArg) :
                  ~(e.type = ev.type /\ Has(e, "state_key") /\ e.state_key = ev.state_key)})

\* the map of the current state built without noticing the conflicting key
CurrentResolved_KeepSlot(currentStateArg, ev) == buildStateMap(currentStateArg)

\* the current resolved state map, excluding the conflicting key
CurrentResolved(currentStateArg, ev) == buildStateMap(WithoutSlot(currentStateArg, ev))

resolveStateWithNewEvent(ev, currentStateArg, authEventsArg) ==
    LET existingEvent ==
            FindFirst(currentStateArg,
                      {e \in Range(currentStateArg) :
                          /\ e.type = ev.type
                          /\ Has(e, "state_key") /\ e.state_key = ev.state_key})
        r == resolveConflict(<<existingEvent, ev>>, CurrentResolved(currentStateArg, ev),
                             AuthEventMap(authEventsArg), << >>)
        newState == WithoutSlot(currentStateArg, ev)
    IN  IF ~Has(ev, "state_key") THEN NoConflict(currentStateArg)
        ELSE IF existingEvent = NoEvent THEN NoConflict(Append(currentStateArg, ev))
        ELSE IF existingEvent.event_id = ev.event_id THEN NoConflict(currentStateArg)
        ELSE [resolvedState |-> IF r.winner = NoEvent THEN newState
                                 ELSE Append(newState, r.winner),
              hadConflicts |-> TRUE,
              rejectedEvents |-> r.rejectedEvents]

(***************************************************************************)
(* PDUs of the model                                                        *)
(***************************************************************************)
Users == {"@a", "@b"}
\* a user ID that never has a membership event
Stranger == "@c"

Other(u) == IF u = "@a" THEN "@b" ELSE "@a"

\* a state event
StateEvent(id, type, key, sender, ts, content) ==
    [event_id |-> id, type |-> type, state_key |-> key, sender |-> sender,
     origin_server_ts |-> ts, depth |-> ts, content |-> content]

\* a non-state event: no state_key
MessageEvent(id, type, sender, ts, content) ==
    [event_id |-> id, type |-> type, sender |-> sender,
     origin_server_ts |-> ts, depth |-> ts, content |-> content]

CreateEvent ==
    [event_id |-> "$cr", type |-> "m.room.create", state_key |-> "", sender |-> "@a",
     origin_server_ts |-> 1, depth |-> 1, prev_events |-> << >>,
     content |-> [creator |-> "@a", room_version |-> "10"]]

MemberEvent(id, sender, target, ts, content) ==
    StateEvent(id, "m.room.member", target, sender, ts, content)

PowerLevelsEvent(id, sender, ts, content) ==
    StateEvent(id, "m.room.power_levels", "", sender, ts, content)

JoinRulesEvent(rule) ==
    StateEvent("$jr", "m.room.join_rules", "", "@a", 1, [join_rule |-> rule])

(***************************************************************************)
(* Inputs of checkEventAuth                                                 *)
(***************************************************************************)
Memberships == {"join", "invite", "leave", "ban", "knock"}
JoinRules == {"public", "invite", "restricted", "knock", "knock_restricted"}

\* room versions the authorization checks are run for; "13" is not in the registry
AuthVersions == {"1", "7", "8", "9", "10", "13"}

UserLevels(a, b) == [u \in Users |-> IF u = "@a" THEN a ELSE b]

\* contents of the room's current m.room.power_levels event
PowerLevelContents ==
    { << >>,
      [users |-> UserLevels(100, 50)],
      [users |-> UserLevels(50, 50)],
      [users |-> UserLevels(50, 100)],
      [users |-> UserLevels(100, 50), ban |-> 100, invite |-> 50],
      [users |-> UserLevels(50, 100), kick |-> 100, ban |-> 50],
      [users |-> [u \in {"@a"} |-> 50], users_default |-> 50, invite |-> 100],
      [users |-> << >>, users_default |-> 0, ban |-> 0, kick |-> 0, invite |-> 0],
      [users |-> UserLevels(100, 50),
       events |-> ("m.room.name" :> 0 @@ "m.room.message" :> 100 @@ "m.room.redaction" :> 50)],
      [users |-> UserLevels(100, 0), state_default |-> 100, events_default |-> 50,
       redact |-> 100],
      [users |-> UserLevels(50, 0), state_default |-> 0, redact |-> 0,
       notifications |-> [room |-> 100]] }

\* the member slot of user u: absent, or one event with the given membership
MemberSlots(u) ==
    {<< >>} \cup
    {<<MemberEvent(IF u = "@a" THEN "$ma" ELSE "$mb", u, u, 1, [membership |-> m])>> :
        m \in Memberships}

PowerLevelSlots ==
    {<< >>} \cup {<<PowerLevelsEvent("$p1", "@a", 1, c)>> : c \in PowerLevelContents}

JoinRuleSlots == {<< >>} \cup {<<JoinRulesEvent(r)>> : r \in JoinRules \ {"invite"}}

\* valid room states (one event per slot), with and without the create event
AuthStates ==
    {<<CreateEvent>> \o pl \o jr \o ma \o mb :
        pl \in PowerLevelSlots, jr \in JoinRuleSlots,
        ma \in MemberSlots("@a"), mb \in MemberSlots("@b")}
    \cup {ma \o mb : ma \in MemberSlots("@a"), mb \in MemberSlots("@b")}

\* membership events: every membership, by each user on themselves and on the other
MemberEvents ==
    {MemberEvent("$x1", s, t, 2, [membership |-> m]) :
        s \in Users, t \in Users, m \in Memberships}
    \cup {MemberEvent("$x1", s, s, 2,
                      [membership |-> "join", join_authorised_via_users_server |-> v]) :
            s \in Users, v \in Users \cup {Stranger}}
    \cup {MemberEvent("$x1", "@a", "@b", 2, << >>)}

\* m.room.create events: the room's own, and malformed ones
CreateEvents ==
    {CreateEvent,
     [CreateEvent EXCEPT !.prev_events = <<"$x1">>],
     [CreateEvent EXCEPT !.state_key = "@a"],
     MessageEvent("$cr", "m.room.create", "@a", 1, [creator |-> "@a"]),
     [CreateEvent EXCEPT !.content = [creator |-> "@a"]],
     [CreateEvent EXCEPT !.content = [room_version |-> "10"]],
     [CreateEvent EXCEPT !.content = [creator |-> ""]],
     [CreateEvent EXCEPT !.content = [creator |-> "", room_version |-> ""]],
     [CreateEvent EXCEPT !.content = [predecessor |-> "!old"]],
     StateEvent("$cr", "m.room.create", "", "@b", 1, [creator |-> "@b"])}

\* contents of new m.room.power_levels events
NewLevelContents ==
    { [users |-> [u \in {"@a"} |-> 100]],
      [users |-> UserLevels(100, 50)],
      [users |-> UserLevels(100, 100)],
      [users |-> UserLevels(50, 51)],
      [users |-> UserLevels(49, 50)],
      [users |-> [u \in {"@b"} |-> 50]],
      [users |-> UserLevels(100, 50), ban |-> 50, invite |-> 50],
      [users |-> UserLevels(50, 50), ban |-> 51],
      [users |-> UserLevels(50, 50), events |-> [t \in {"m.room.name"} |-> 51]],
      [users |-> UserLevels(50, 50), events |-> [t \in {"m.room.name"} |-> 50],
       state_default |-> 50, users_default |-> 50],
      [users |-> UserLevels(50, 50), notifications |-> [room |-> 100]],
      [users |-> UserLevels(50, 50), notifications |-> [room |-> Half(10)]],
      [users |-> UserLevels(50, 50), kick |-> Half(10)],
      [users |-> UserLevels(50, Half(10))],
      [users |-> UserLevels(50, 50), events |-> [t \in {"m.room.name"} |-> Half(10)]] }

\* m.room.redaction events; `redacts` names the member event of @a or of @b,
\* each sent by the user it is about
RedactionEvents ==
    {[event_id |-> "$x2", type |-> "m.room.redaction", sender |-> s, redacts |-> r,
      origin_server_ts |-> 2, depth |-> 2, content |-> [reason |-> "r"]] :
        s \in Users, r \in {"$ma", "$mb"}}

\* the events of other kinds
OtherEvents ==
    {PowerLevelsEvent("$p2", s, 2, c) : s \in Users, c \in NewLevelContents}
    \cup {StateEvent("$n1", t, "", s, 2, [name |-> "n"]) :
            s \in Users, t \in {"m.room.name", "m.room.topic", "m.room.third_party_invite"}}
    \cup {MessageEvent("$x2", t, s, 2, [body |-> "hi"]) :
            s \in Users, t \in {"m.room.message", "m.reaction"}}
    \cup RedactionEvents
    \cup CreateEvents

AuthEvents == MemberEvents \cup OtherEvents

(***************************************************************************)
(* Specification of one checkEventAuth call                                 *)
(***************************************************************************)
ResIdle == stateSets = << >> /\ resolved = << >> /\ separated = NoEvent
AuthIdle == event = NoEvent /\ roomState = << >> /\ authResult = NoEvent
IncIdle ==
    /\ newEvent = NoEvent /\ currentState = << >> /\ authEvents = << >>
    /\ incremental = NoEvent /\ full = NoEvent
DepIdle == otherState = << >> /\ otherResult = NoEvent
KeysIdle == clock = 0 /\ origin = NoEvent /\ kvCache = << >> /\ remote_server_keys = << >> /\ calls = << >>
FedIdle == outbound = << >>
CryptoIdle == jsonIn = NoEvent /\ jsonOut = NoEvent
ConsumerIdle == batch = << >> /\ sendResults = << >> /\ settlements = << >>
ObjectIdle == dateNow = 0 /\ storage = NoEvent /\ alarmAt = 0 /\ transactions = << >> /\ history = NoEvent
ExtIdle == CryptoIdle /\ ConsumerIdle /\ ObjectIdle
NetIdle == KeysIdle /\ FedIdle /\ ExtIdle

InitAuth ==
    /\ pc = "input"
    /\ roomVersion \in AuthVersions
    /\ roomState \in AuthStates
    /\ event = NoEvent
    /\ authResult = NoEvent
    /\ ResIdle /\ IncIdle /\ DepIdle /\ NetIdle

\* a caller checks one event against the room state
CheckEventAuth ==
    /\ pc = "input"
    /\ \E e \in AuthEvents :
          /\ event' = e
          /\ authResult' = checkEventAuth(e, roomState, roomVersion)
    /\ pc' = "checkEventAuth"
    /\ UNCHANGED <<roomVersion, roomState, resVars, incVars, depVars, netVars>>

NextAuth == CheckEventAuth

SpecAuth == InitAuth /\ [][NextAuth]_vars

(***************************************************************************)
(* Inputs of resolveState: the state sets of the branches of one room.      *)
(* Every branch holds the create event and @a's join; the other slots       *)
(* differ from branch to branch.                                            *)
(***************************************************************************)
\* number of state sets handed to resolveState
MaxSets == 2

\* "13" is not in the registry
ResVersions == {"1", "2", "10", "13"}

JoinA == MemberEvent("$ma", "@a", "@a", 1, [membership |-> "join"])
JoinB == MemberEvent("$jb", "@b", "@b", 1, [membership |-> "join"])
InviteB == MemberEvent("$vb", "@a", "@b", 1, [membership |-> "invite"])
LeaveB == MemberEvent("$lb", "@b", "@b", 1, [membership |-> "leave"])
Levels1 == PowerLevelsEvent("$p1", "@a", 1, [users |-> UserLevels(100, 50)])
Levels2 == PowerLevelsEvent("$p2", "@b", 1, [users |-> UserLevels(50, 100)])
Name1 == StateEvent("$n1", "m.room.name", "", "@a", 1, [name |-> "one"])
Name2 == StateEvent("$n2", "m.room.name", "", "@b", 2, [name |-> "two"])

ResStateSets ==
    {<<CreateEvent, JoinA>> \o pl \o mb \o nm :
        pl \in {<< >>, <<Levels1>>, <<Levels2>>},
        mb \in {<< >>, <<JoinB>>, <<InviteB>>, <<LeaveB>>},
        nm \in {<< >>, <<Name1>>, <<Name2>>}}

InitRes ==
    /\ pc = "input"
    /\ roomVersion \in ResVersions
    /\ stateSets \in UNION {[1..n -> ResStateSets] : n \in 0..MaxSets}
    /\ resolved = << >>
    /\ separated = NoEvent
    /\ AuthIdle /\ IncIdle /\ DepIdle /\ NetIdle

\* a caller resolves the state sets; resolveStateV2 partitions them when there
\* are two or more
Resolve ==
    /\ pc = "input"
    /\ resolved' = resolveState(roomVersion, stateSets)
    /\ separated' = IF ~UsesV1(roomVersion) /\ Len(stateSets) >= 2
                    THEN separateState(stateSets) ELSE NoEvent
    /\ pc' = "resolveState"
    /\ UNCHANGED <<roomVersion, stateSets, authVars, incVars, depVars, netVars>>

NextRes == Resolve

SpecRes == InitRes /\ [][NextRes]_vars

(***************************************************************************)
(* Specification of two checkEventAuth calls: one event against two room    *)
(* states of the same room version                                          *)
(***************************************************************************)
DepVersions == {"1", "10"}

\* the member slot of user u in the two-state runs
DepMemberSlots(u, id) ==
    {<< >>} \cup {<<MemberEvent(id, u, u, 1, [membership |-> m])>> : m \in {"join", "ban"}}

\* valid room states (one event per slot), each written in some slot order
DepStates ==
    {cr \o pl \o jr \o ma \o mb \o mc \o nm :
        cr \in {<< >>, <<CreateEvent>>},
        pl \in {<< >>, <<Levels1>>},
        jr \in {<< >>, <<JoinRulesEvent("restricted")>>},
        ma \in DepMemberSlots("@a", "$ma"),
        mb \in DepMemberSlots("@b", "$mb"),
        mc \in {<< >>, <<MemberEvent("$ja", Stranger, Stranger, 1, [membership |-> "join"])>>},
        nm \in {<< >>, <<Name1>>}}

DepEvents ==
    {MemberEvent("$x1", "@a", "@a", 2, [membership |-> "join"]),
     MemberEvent("$x1", Stranger, Stranger, 2,
                 [membership |-> "join", join_authorised_via_users_server |-> "@a"]),
     MemberEvent("$x1", "@a", "@b", 2, [membership |-> "invite"]),
     MemberEvent("$x1", "@a", "@b", 2, [membership |-> "ban"]),
     MemberEvent("$x1", "@b", "@a", 2, [membership |-> "leave"]),
     MemberEvent("$x1", "@b", "@b", 2, [membership |-> "knock"]),
     StateEvent("$n2", "m.room.name", "", "@a", 2, [name |-> "n"]),
     StateEvent("$n2", "m.room.topic", "@b", "@a", 2, [topic |-> "t"]),
     StateEvent("$n2", "m.room.third_party_invite", "", "@b", 2, [display_name |-> "d"]),
     PowerLevelsEvent("$p2", "@b", 2, [users |-> [u \in {"@b"} |-> 50]]),
     PowerLevelsEvent("$p2", "@a", 2, [users |-> UserLevels(100, 100)]),
     MessageEvent("$x2", "m.room.message", "@b", 2, [body |-> "hi"]),
     MessageEvent("$x2", "m.room.redaction", "@a", 2, [reason |-> "r"]),
     CreateEvent}

InitDep ==
    /\ pc = "input"
    /\ roomVersion \in DepVersions
    /\ roomState \in DepStates
    /\ otherState \in {Reverse(st) : st \in DepStates}
    /\ event = NoEvent
    /\ authResult = NoEvent
    /\ otherResult = NoEvent
    /\ ResIdle /\ IncIdle /\ NetIdle

\* a caller checks one event against each of the two room states
CheckEventAuthTwice ==
    /\ pc = "input"
    /\ \E e \in DepEvents :
          /\ event' = e
          /\ authResult' = checkEventAuth(e, roomState, roomVersion)
          /\ otherResult' = checkEventAuth(e, otherState, roomVersion)
    /\ pc' = "checkEventAuthTwice"
    /\ UNCHANGED <<roomVersion, roomState, otherState, resVars, incVars, netVars>>

NextDep == CheckEventAuthTwice

SpecDep == InitDep /\ [][NextDep]_vars

(***************************************************************************)
(* Inputs of resolveStateWithNewEvent and of the resolveState of the same   *)
(* module: a current state, a new event and the auth events                 *)
(***************************************************************************)
IncStates ==
    {cr \o <<JoinA>> \o pl \o mb \o nm :
        cr \in {<< >>, <<CreateEvent>>},
        pl \in {<< >>, <<Levels1>>, <<Levels2>>},
        mb \in {<< >>, <<JoinB>>, <<InviteB>>, <<LeaveB>>},
        nm \in {<< >>, <<Name1>>, <<Name2>>}}

IncEvents ==
    {Levels1, Levels2, JoinB, InviteB, LeaveB, Name1, Name2,
     MessageEvent("$x2", "m.room.message", "@a", 2, [body |-> "hi"])}

IncAuthEvents ==
    {<< >>,
     <<CreateEvent, JoinA>>,
     <<CreateEvent, Levels2, JoinB>>,
     <<Levels1, Levels2, CreateEvent, JoinA, JoinB>>}

InitInc ==
    /\ pc = "input"
    /\ roomVersion = Undefined
    /\ currentState \in IncStates
    /\ newEvent \in IncEvents
    /\ authEvents \in IncAuthEvents
    /\ incremental = NoEvent
    /\ full = NoEvent
    /\ ResIdle /\ AuthIdle /\ DepIdle /\ NetIdle

\* currentState with the event of newEvent's slot replaced by newEvent
Replaced ==
    [i \in 1..Len(currentState) |->
        IF Has(newEvent, "state_key") /\ SlotOf(currentState[i]) = SlotOf(newEvent)
        THEN newEvent ELSE currentState[i]]

\* the new event is processed by the incremental form
ResolveIncremental ==
    /\ pc = "input"
    /\ incremental' = resolveStateWithNewEvent(newEvent, currentState, authEvents)
    /\ pc' = "resolveStateWithNewEvent"
    /\ UNCHANGED <<roomVersion, resVars, authVars, depVars, netVars, newEvent, currentState, authEvents, full>>

\* the same input is resolved by the full algorithm: the current state and the
\* branch that holds the new event in its slot
ResolveFull ==
    /\ pc = "resolveStateWithNewEvent"
    /\ full' = SR2_resolveState(<<currentState, Replaced>>, authEvents)
    /\ pc' = "resolveStateFull"
    /\ UNCHANGED <<roomVersion, resVars, authVars, depVars, netVars, newEvent, currentState,
                   authEvents, incremental>>

NextInc == ResolveIncremental \/ ResolveFull

SpecInc == InitInc /\ [][NextInc]_vars

(***************************************************************************)
(* Specification of a sequence of m.room.power_levels events: each event    *)
(* is checked by checkEventAuth against the room state and, when allowed,   *)
(* becomes the room's power-levels event.                                   *)
(***************************************************************************)
PowerVersions == {"1", "10"}

\* contents of the power-levels events of the sequence
PowerSequenceContents ==
    { << >>,
      [users |-> UserLevels(100, 50)],
      [users |-> UserLevels(50, 50)],
      [users |-> UserLevels(50, 100)],
      [users |-> [u \in {"@b"} |-> 50]],
      [users |-> << >>, users_default |-> 50],
      [users |-> UserLevels(100, 50), users_default |-> 100],
      [users |-> UserLevels(0, 0), state_default |-> 0],
      [users |-> UserLevels(0 - 1, 0 - 1), users_default |-> 0 - 1, state_default |-> 0 - 1] }

PowerSequenceEvents == {PowerLevelsEvent("$p2", s, 2, c) : s \in Users, c \in PowerSequenceContents}

\* a room with both users joined and a power-levels event
PowerStates ==
    {<<CreateEvent, PowerLevelsEvent("$p1", "@a", 1, c), JoinA, JoinB>> :
        c \in {[users |-> UserLevels(100, 50)], [users |-> UserLevels(50, 50)],
               [users |-> UserLevels(0, 0), state_default |-> 0]}}

InitPower ==
    /\ pc = "input"
    /\ roomVersion \in PowerVersions
    /\ roomState \in PowerStates
    /\ event = NoEvent
    /\ authResult = NoEvent
    /\ ResIdle /\ IncIdle /\ DepIdle /\ NetIdle

\* a user sends a power-levels event; an authorized event enters the state
SendPowerLevels ==
    /\ \E e \in PowerSequenceEvents :
          /\ event' = e
          /\ authResult' = checkEventAuth(e, roomState, roomVersion)
          /\ roomState' = IF checkEventAuth(e, roomState, roomVersion).allowed THEN MapSet(roomState, e) ELSE roomState
    /\ pc' = "sendPowerLevels"
    /\ UNCHANGED <<roomVersion, resVars, incVars, depVars, netVars>>

NextPower == SendPowerLevels

SpecPower == InitPower /\ [][NextPower]_vars

(***************************************************************************)
(* Canonical JSON and signing (utils/crypto.ts).  A JSON value is a record  *)
(* tagged with its typeof; an object is the sequence of its own enumerable  *)
(* properties in insertion order.                                           *)
(***************************************************************************)
JsNull == [type |-> "null"]
JsBoolean(b) == [type |-> "boolean", bool |-> b]
JsNumber(n) == [type |-> "number", num |-> n]
NaN == [type |-> "number", nonfinite |-> "NaN"]
PlusInfinity == [type |-> "number", nonfinite |-> "Infinity"]
MinusInfinity == [type |-> "number", nonfinite |-> "-Infinity"]
JsString(s) == [type |-> "string", str |-> s]
JsArray(items) == [type |-> "array", items |-> items]
JsObject(entries) == [type |-> "object", entries |-> entries]
Property(k, v) == [key |-> k, value |-> v]

\* the property names of the model, in the order of their UTF-16 code units
PropertyNames == <<"a", "b", "content", "ed25519:1", "ed25519:2", "example.org", "other.org", "signatures", "type", "unsigned">>

ObjectKeys(obj) == [i \in 1..Len(obj.entries) |-> obj.entries[i].key]
HasProperty(obj, k) == \E i \in 1..Len(obj.entries) : obj.entries[i].key = k
GetProperty(obj, k) == obj.entries[CHOOSE i \in 1..Len(obj.entries) : obj.entries[i].key = k].value

\* Array.prototype.sort() of property names
SortKeys(keys) == SelectSeq(PropertyNames, LAMBDA k : k \in Range(keys))

\* delete obj[k]
DeleteProperty(obj, k) == JsObject(SelectSeq(obj.entries, LAMBDA e : e.key # k))

\* { ...obj, [k]: v }: an existing property keeps its position
SetProperty(obj, k, v) ==
    IF HasProperty(obj, k)
    THEN JsObject([i \in 1..Len(obj.entries) |-> IF obj.entries[i].key = k THEN Property(k, v) ELSE obj.entries[i]])
    ELSE JsObject(Append(obj.entries, Property(k, v)))

RECURSIVE Join(_, _)
Join(items, sep) ==
    IF items = << >> THEN ""
    ELSE IF Len(items) = 1 THEN items[1]
    ELSE items[1] \o sep \o Join(Tail(items), sep)

\* JSON.stringify of a boolean, a number or a string without characters to
\* escape: a number that is not finite is written null
JSON_stringify(v) ==
    IF v.type = "boolean" THEN (IF v.bool THEN "true" ELSE "false")
    ELSE IF v.type = "number" THEN (IF "nonfinite" \in DOMAIN v THEN "null" ELSE ToString(v.num))
    ELSE "\"" \o v.str \o "\""

\* crypto.ts:257-285
RECURSIVE canonicalJson(_)
canonicalJson(obj) ==
    IF obj.type = "null" THEN "null"
    ELSE IF obj.type \in {"boolean", "number", "string"} THEN JSON_stringify(obj)
    ELSE IF obj.type = "array"
    THEN "[" \o Join([i \in 1..Len(obj.items) |-> canonicalJson(obj.items[i])], ",") \o "]"
    ELSE LET keys == SortKeys(ObjectKeys(obj))
             pairs == [i \in 1..Len(keys) |-> JSON_stringify(JsString(keys[i])) \o ":" \o canonicalJson(GetProperty(obj, keys[i]))]
         IN  "{" \o Join(pairs, ",") \o "}"

\* crypto.subtle.sign and base64UrlEncode: the signature of bytes by a key
Ed25519Sign(privateKey, bytes) == [type |-> "string", signedBy |-> privateKey, over |-> bytes]

\* crypto.ts:196-201, a merge that drops the existing signatures
MergeSignatures_Replace(existingSignatures, serverName, keyId, signatureB64) == JsObject(<<Property(serverName, JsObject(<<Property(keyId, signatureB64)>>))>>)

\* crypto.ts:196-201, the signatures map of the returned object
MergeSignatures(existingSignatures, serverName, keyId, signatureB64) ==
    LET ofServer == IF HasProperty(existingSignatures, serverName) THEN GetProperty(existingSignatures, serverName) ELSE JsObject(<< >>)
    IN  SetProperty(existingSignatures, serverName, SetProperty(ofServer, keyId, signatureB64))

\* crypto.ts:153-203
signJson(obj, serverName, keyId, privateKeyJwk) ==
    LET toSign == DeleteProperty(DeleteProperty(obj, "signatures"), "unsigned")
        canonical == canonicalJson(toSign)
        signatureB64 == Ed25519Sign(privateKeyJwk, canonical)
        existingSignatures == IF HasProperty(obj, "signatures") THEN GetProperty(obj, "signatures") ELSE JsObject(<< >>)
    IN  SetProperty(obj, "signatures", MergeSignatures(existingSignatures, serverName, keyId, signatureB64))

\* the values handed to canonicalJson
JsonAtoms == {JsNull, JsBoolean(TRUE), JsNumber(1), NaN, PlusInfinity, MinusInfinity, JsString("x")}
MaxItems == 2
JsonArrays == {JsArray(items) : items \in UNION {[1..n -> JsonAtoms] : n \in 0..MaxItems}}
JsonFlatObjects == {JsObject(<<Property("b", v)>>) : v \in JsonAtoms} \cup {JsObject(<<Property("b", v), Property("a", w)>>) : v, w \in JsonAtoms}
JsonNested == {JsObject(<<Property("type", JsString("x")), Property("content", v)>>) : v \in JsonArrays \cup JsonFlatObjects} \cup {JsArray(<<v>>) : v \in JsonFlatObjects}
JsonValues == JsonAtoms \cup JsonArrays \cup JsonFlatObjects \cup JsonNested

\* the objects handed to signJson
SigningServers == {"example.org", "other.org"}
SigningKeyIds == {"ed25519:1", "ed25519:2"}
OldSignature == JsString("old")
SignaturesOf(server, keyIds) == Property(server, JsObject([i \in 1..Len(keyIds) |-> Property(keyIds[i], OldSignature)]))
ExistingSignatures ==
    { JsObject(<< >>),
      JsObject(<<SignaturesOf("example.org", <<"ed25519:1">>)>>),
      JsObject(<<SignaturesOf("example.org", <<"ed25519:2">>)>>),
      JsObject(<<SignaturesOf("other.org", <<"ed25519:1">>)>>),
      JsObject(<<SignaturesOf("other.org", <<"ed25519:1">>), SignaturesOf("example.org", <<"ed25519:2", "ed25519:1">>)>>) }
UnsignedData == JsObject(<<Property("a", JsNumber(1))>>)
ObjectsToSign ==
    LET body == <<Property("type", JsString("x")), Property("content", JsObject(<<Property("b", JsNumber(1))>>))>>
    IN  {JsObject(body), JsObject(body \o <<Property("unsigned", UnsignedData)>>)}
        \cup {JsObject(<<Property("signatures", sigs)>> \o body) : sigs \in ExistingSignatures}
        \cup {JsObject(body \o <<Property("unsigned", UnsignedData), Property("signatures", sigs)>>) : sigs \in ExistingSignatures}

InitCrypto ==
    /\ pc = "input"
    /\ roomVersion = Undefined
    /\ jsonIn \in JsonValues \cup ObjectsToSign
    /\ jsonOut = NoEvent
    /\ ResIdle /\ AuthIdle /\ IncIdle /\ DepIdle /\ KeysIdle /\ FedIdle /\ ConsumerIdle /\ ObjectIdle

CryptoUnchanged == UNCHANGED <<roomVersion, resVars, authVars, incVars, depVars, keyVars, fedVars, consumerVars, objectVars>>

\* canonicalJson(jsonIn) is called
CanonicalJson ==
    /\ pc = "input"
    /\ pc' = "canonicalJson"
    /\ jsonOut' = [returned |-> canonicalJson(jsonIn)]
    /\ UNCHANGED jsonIn
    /\ CryptoUnchanged

\* signJson(jsonIn, serverName, keyId, key) is called
SignJson ==
    /\ pc = "input"
    /\ jsonIn \in ObjectsToSign
    /\ pc' = "signJson"
    /\ \E serverName \in SigningServers, keyId \in SigningKeyIds :
          jsonOut' = [serverName |-> serverName, keyId |-> keyId, returned |-> signJson(jsonIn, serverName, keyId, "privateKey")]
    /\ UNCHANGED jsonIn
    /\ CryptoUnchanged

NextCrypto == CanonicalJson \/ SignJson

SpecCrypto == InitCrypto /\ [][NextCrypto]_vars

(***************************************************************************)
(* The queue consumer (consumers/federation-consumer.ts).                   *)
(***************************************************************************)
MaxMessages == 3
QueueDestinations == {"one.org", "two.org"}

\* a message of the batch: its body's destination and its delivery count
Message(destination, attempts) == [destination |-> destination, attempts |-> attempts]
Messages == {Message(d, n) : d \in QueueDestinations, n \in {1, 4, 5, 6}}
MessageBatches == UNION {[1..n -> Messages] : n \in 1..MaxMessages}

\* Promise.allSettled: the transaction returned 2xx, or it returned another
\* status or fetch threw (value false), or the key query or signJson threw
Fulfilled(value) == [status |-> "fulfilled", value |-> value]
Rejected == [status |-> "rejected"]
SettledResults == {Fulfilled(TRUE), Fulfilled(FALSE), Rejected}

\* federation-consumer.ts:24-34, the keys of byDestination in insertion order
RECURSIVE GroupByDestination(_, _)
GroupByDestination(messages, keys) ==
    IF messages = << >> THEN keys
    ELSE GroupByDestination(Tail(messages), IF Head(messages).destination \in Range(keys) THEN keys ELSE Append(keys, Head(messages).destination))

IndexOf(seq, x) == CHOOSE i \in 1..Len(seq) : seq[i] = x /\ \A j \in 1..(i - 1) : seq[j] # x

\* federation-consumer.ts:49-51, with the result of the first destination
\* for every message
ResultOf_First(entries, results, destination) == results[1]

\* federation-consumer.ts:49-51
ResultOf(entries, results, destination) == results[IndexOf(entries, destination)]

RECURSIVE Pow(_, _)
Pow(b, n) == IF n = 0 THEN 1 ELSE b * Pow(b, n - 1)

Ack == [call |-> "ack"]
Retry(delaySeconds) == [call |-> "retry", delaySeconds |-> delaySeconds]

\* federation-consumer.ts:53-63, the calls made on one message
Settle(msg, result) ==
    IF result.status = "rejected" \/ (result.status = "fulfilled" /\ ~result.value)
    THEN IF msg.attempts < 5 THEN <<Retry(Pow(2, msg.attempts) * 60)>> ELSE <<Ack>>
    ELSE <<Ack>>

\* federation-consumer.ts:19-65, the calls made on each message
handleFederationQueue(messages, results) ==
    LET entries == GroupByDestination(messages, << >>)
    IN  [i \in 1..Len(messages) |-> Settle(messages[i], ResultOf(entries, results, messages[i].destination))]

InitConsumer ==
    /\ pc = "input"
    /\ roomVersion = Undefined
    /\ batch \in MessageBatches
    /\ sendResults = << >>
    /\ settlements = << >>
    /\ ResIdle /\ AuthIdle /\ IncIdle /\ DepIdle /\ KeysIdle /\ FedIdle /\ CryptoIdle /\ ObjectIdle

\* the consumer is invoked with the batch; every transaction settles
HandleFederationQueue ==
    /\ pc = "input"
    /\ pc' = "handleFederationQueue"
    /\ \E results \in [1..Len(GroupByDestination(batch, << >>)) -> SettledResults] :
          /\ sendResults' = results
          /\ settlements' = handleFederationQueue(batch, results)
    /\ UNCHANGED <<batch, roomVersion, resVars, authVars, incVars, depVars, keyVars, fedVars, cryptoVars, objectVars>>

NextConsumer == HandleFederationQueue

SpecConsumer == InitConsumer /\ [][NextConsumer]_vars

(***************************************************************************)
(* Remote signing keys (services/federation-keys.ts).  The keys of one      *)
(* remote server, ServerName, are fetched, cached and used.  A key pair is  *)
(* named by its public key; a signature records the key pair that made it   *)
(* and verifies under a public key exactly when that is the key pair's.     *)
(* Timestamps are hours; null is written 0 (the clock starts at 1, so no     *)
(* timestamp of a run is 0).                                                 *)
(***************************************************************************)
ServerName == "x"
KeyA == "ed25519:a"
KeyB == "ed25519:b"

\* the callers that may run verifyRemoteSignature at the same time
MaxCallers == 2
Callers == 1..MaxCallers
\* the last hour the clock reaches
MaxClock == 3
\* 60 * 60 * 1000 ms, the age up to which a D1 row counts as recent
OneHour == 1

IsNull(v) == v = 0

\* utils/crypto.ts: false when obj has no signature of (serverName, keyId),
\* otherwise the Ed25519 check of that signature against publicKey
verifySignature(obj, serverName, keyId, publicKey) ==
    \E i \in 1..Len(obj.signatures) :
        /\ obj.signatures[i].server = serverName
        /\ obj.signatures[i].key_id = keyId
        /\ obj.signatures[i].by = publicKey

Signature(serverName, keyId, keyPair) == [server |-> serverName, key_id |-> keyId, by |-> keyPair]

\* base64UrlDecode succeeds and yields 32 bytes
ValidKeyFormat(key) == key # "not 32 bytes"

KeyResponse(name, until, current, old, sigs) == [server_name |-> name, valid_until_ts |-> until, verify_keys |-> current, old_verify_keys |-> old, signatures |-> sigs]

\* the genuine response of the server while ed25519:a is its current key
CurrentResponse == KeyResponse(ServerName, 2, <<[key_id |-> KeyA, key |-> "Ka"]>>, << >>, <<Signature(ServerName, KeyA, "Ka")>>)

\* the genuine response after ed25519:a was replaced by ed25519:b at hour t
RotatedResponse(t) == KeyResponse(ServerName, 5, <<[key_id |-> KeyB, key |-> "Kb"]>>, <<[key_id |-> KeyA, key |-> "Ka", expired_ts |-> t]>>, <<Signature(ServerName, KeyB, "Kb")>>)

\* responses that are not the server's: a key of somebody else without any
\* signature, the server's key under a signature made with another key pair
UnsignedResponse == KeyResponse(ServerName, 5, <<[key_id |-> KeyA, key |-> "Kz"]>>, << >>, << >>)
BadlySignedResponse == KeyResponse(ServerName, 5, <<[key_id |-> KeyA, key |-> "Ka"]>>, << >>, <<Signature(ServerName, KeyA, "Kz")>>)
\* a well-signed response of another server, and one without a usable key
OtherServerResponse == KeyResponse("y", 5, <<[key_id |-> KeyA, key |-> "Ky"]>>, << >>, <<Signature("y", KeyA, "Ky")>>)
NoValidKeyResponse == KeyResponse(ServerName, 5, <<[key_id |-> KeyA, key |-> "not 32 bytes"]>>, << >>, << >>)

OriginResponses == {CurrentResponse, UnsignedResponse, BadlySignedResponse, OtherServerResponse, NoValidKeyResponse}

\* how the HTTP request for the keys ends, when it ends
FetchOutcomes == {"ok", "non-2xx", "network error"}

\* the signed objects whose signature a caller verifies
SignedObject(ts, keyId, keyPair) == [origin_server_ts |-> ts, signatures |-> <<Signature(ServerName, keyId, keyPair)>>]
SignedObjects == {SignedObject(1, KeyA, "Ka"), SignedObject(3, KeyA, "Ka"), SignedObject(1, KeyA, "Kz"), SignedObject(3, KeyB, "Kb")}

RemoteServerKey(keyId, key, from, until, fetched, verified) == [server_name |-> ServerName, key_id |-> keyId, public_key |-> key, valid_from |-> from, valid_until |-> until, fetched_at |-> fetched, verified |-> verified]

\* federation-keys.ts:140-175, the rows of the current keys
CurrentKeyRows(keyResponse, serverName, now) ==
    LET Usable(keyData) == ValidKeyFormat(keyData.key)
        valid == SelectSeq(keyResponse.verify_keys, Usable)
        Verified(keyData) == verifySignature(keyResponse, serverName, keyData.key_id, keyData.key)
    IN  [i \in 1..Len(valid) |-> RemoteServerKey(valid[i].key_id, valid[i].key, now, keyResponse.valid_until_ts, now, Verified(valid[i]))]

\* federation-keys.ts:178-195, the rows of the old keys
OldKeyRows(keyResponse, now) ==
    LET Usable(keyData) == ValidKeyFormat(keyData.key)
        valid == SelectSeq(keyResponse.old_verify_keys, Usable)
        Until(keyData) == IF keyData.expired_ts # 0 THEN keyData.expired_ts ELSE now
    IN  [i \in 1..Len(valid) |-> RemoteServerKey(valid[i].key_id, valid[i].key, 0, Until(valid[i]), now, FALSE)]

\* fetchKeysFromRemote once the response arrived: the keys returned, or << >>
\* when it throws (non-2xx, network error, server name mismatch, no valid key)
fetchKeysFromRemote(outcome, keyResponse, serverName, now) ==
    IF outcome # "ok" THEN << >>
    ELSE IF keyResponse.server_name # serverName THEN << >>
    ELSE CurrentKeyRows(keyResponse, serverName, now) \o OldKeyRows(keyResponse, now)

\* the SELECT of fetchRemoteServerKeys: the rows that are not expired
SelectNotExpired(rows, now) ==
    LET NotExpired(k) == IsNull(k.valid_until) \/ k.valid_until > now
    IN  SelectSeq(rows, NotExpired)

\* the rows fetched within the last hour
RecentKeys(dbKeys, now) ==
    LET Recent(k) == k.fetched_at > now - OneHour
    IN  SelectSeq(dbKeys, Recent)

\* INSERT OR REPLACE INTO remote_server_keys, keyed by (server_name, key_id)
InsertOrReplace(rows, key) ==
    IF \E i \in 1..Len(rows) : rows[i].key_id = key.key_id
    THEN [i \in 1..Len(rows) |-> IF rows[i].key_id = key.key_id THEN key ELSE rows[i]]
    ELSE Append(rows, key)

\* keys.find((k) => k.key_id === keyId): the index of the first match, or 0
FindKey(keys, keyId) ==
    IF \E i \in 1..Len(keys) : keys[i].key_id = keyId
    THEN CHOOSE i \in 1..Len(keys) : keys[i].key_id = keyId /\ \A j \in 1..(i - 1) : keys[j].key_id # keyId
    ELSE 0

\* getRemoteServerKey and verifyRemoteSignature once fetchRemoteServerKeys
\* returned keys: an expired key is only logged, then used
verifyWithKeys(obj, serverName, keyId, keys, now) ==
    LET i == FindKey(keys, keyId)
    IN  IF i = 0 THEN "false"
        ELSE IF verifySignature(obj, serverName, keyId, keys[i].public_key) THEN "true"
        ELSE "false"

(***************************************************************************)
(* Specification of concurrent verifyRemoteSignature calls.  A call is      *)
(* split where the code awaits: the KV read, the D1 read (followed by the   *)
(* KV write of recent rows, or by the HTTP request), the arrival of the     *)
(* response, each D1 write, the KV write.                                   *)
(***************************************************************************)
IdleCall == [pc |-> "idle", obj |-> NoEvent, keyId |-> Undefined, dbKeys |-> << >>, keys |-> << >>, next |-> 0, path |-> Undefined, result |-> Undefined]

\* fetchRemoteServerKeys returned keys by way of path; verifyRemoteSignature returns
Returned(call, keys, path) == [call EXCEPT !.pc = "done", !.keys = keys, !.next = 0, !.path = path, !.result = verifyWithKeys(call.obj, ServerName, call.keyId, keys, clock)]

\* fetchRemoteServerKeys threw; verifyRemoteSignature has no handler
Thrown(call) == [call EXCEPT !.pc = "done", !.keys = << >>, !.path = "failed", !.result = "throws"]

InFlight == {c \in Callers : calls[c].pc = "fetch"}

InitKeys ==
    /\ pc = "input"
    /\ roomVersion = Undefined
    /\ clock = 1
    /\ origin \in OriginResponses
    /\ kvCache = << >>
    /\ remote_server_keys = << >>
    /\ calls = [c \in Callers |-> IdleCall]
    /\ ResIdle /\ AuthIdle /\ IncIdle /\ DepIdle /\ FedIdle /\ ExtIdle

KeysUnchanged == UNCHANGED <<pc, roomVersion, resVars, authVars, incVars, depVars, fedVars, extVars>>

\* verifyRemoteSignature(obj, ServerName, keyId, db, cache) is called
Call(c) ==
    /\ calls[c].pc = "idle"
    /\ \E o \in SignedObjects :
          calls' = [calls EXCEPT ![c] = [IdleCall EXCEPT !.pc = "kvGet", !.obj = o, !.keyId = o.signatures[1].key_id]]
    /\ UNCHANGED <<clock, origin, kvCache, remote_server_keys>>
    /\ KeysUnchanged

\* cache.get: a cached entry is returned as it is
KvGet(c) ==
    /\ calls[c].pc = "kvGet"
    /\ calls' = [calls EXCEPT ![c] = IF kvCache # << >> THEN Returned(@, kvCache, "kv") ELSE [@ EXCEPT !.pc = "d1Select"]]
    /\ UNCHANGED <<clock, origin, kvCache, remote_server_keys>>
    /\ KeysUnchanged

\* the SELECT: recent rows are cached in KV and returned, otherwise the
\* request to the origin is sent
D1Select(c) ==
    /\ calls[c].pc = "d1Select"
    /\ LET dbKeys == SelectNotExpired(remote_server_keys, clock)
           recentKeys == RecentKeys(dbKeys, clock)
       IN  IF recentKeys # << >>
           THEN /\ kvCache' = recentKeys
                /\ calls' = [calls EXCEPT ![c] = Returned([@ EXCEPT !.dbKeys = dbKeys], recentKeys, "d1")]
           ELSE /\ kvCache' = kvCache
                /\ calls' = [calls EXCEPT ![c] = [@ EXCEPT !.pc = "fetch", !.dbKeys = dbKeys]]
    /\ UNCHANGED <<clock, origin, remote_server_keys>>
    /\ KeysUnchanged

\* the request ends: the keys are kept for the writes, or the catch block
\* returns the rows the SELECT gave, or throws when it gave none
FetchEnds(c) ==
    /\ calls[c].pc = "fetch"
    /\ \E outcome \in FetchOutcomes :
          LET keys == fetchKeysFromRemote(outcome, origin, ServerName, clock)
          IN  calls' = [calls EXCEPT ![c] =
                  IF keys # << >> THEN [@ EXCEPT !.pc = "d1Write", !.keys = keys, !.next = 1]
                  ELSE IF @.dbKeys # << >> THEN Returned(@, @.dbKeys, "fallback")
                  ELSE Thrown(@)]
    /\ UNCHANGED <<clock, origin, kvCache, remote_server_keys>>
    /\ KeysUnchanged

\* one INSERT OR REPLACE of the loop over the fetched keys
D1Write(c) ==
    /\ calls[c].pc = "d1Write"
    /\ remote_server_keys' = InsertOrReplace(remote_server_keys, calls[c].keys[calls[c].next])
    /\ calls' = [calls EXCEPT ![c] = IF @.next = Len(@.keys) THEN [@ EXCEPT !.pc = "kvPut"] ELSE [@ EXCEPT !.next = @ + 1]]
    /\ UNCHANGED <<clock, origin, kvCache>>
    /\ KeysUnchanged

\* cache.put of the fetched keys, and the return
KvPut(c) ==
    /\ calls[c].pc = "kvPut"
    /\ kvCache' = calls[c].keys
    /\ calls' = [calls EXCEPT ![c] = Returned(@, @.keys, "fetched")]
    /\ UNCHANGED <<clock, origin, remote_server_keys>>
    /\ KeysUnchanged

\* the caller takes the result (or the exception) and is free for another call
Return(c) ==
    /\ calls[c].pc = "done"
    /\ calls' = [calls EXCEPT ![c] = IdleCall]
    /\ UNCHANGED <<clock, origin, kvCache, remote_server_keys>>
    /\ KeysUnchanged

\* an hour passes; the KV entry (expirationTtl of 5 minutes) is gone by then
Tick ==
    /\ clock < MaxClock
    /\ clock' = clock + 1
    /\ kvCache' = << >>
    /\ UNCHANGED <<origin, remote_server_keys, calls>>
    /\ KeysUnchanged

\* the KV entry expires within the hour
KvExpire ==
    /\ kvCache # << >>
    /\ kvCache' = << >>
    /\ UNCHANGED <<clock, origin, remote_server_keys, calls>>
    /\ KeysUnchanged

\* the remote server replaces ed25519:a by ed25519:b
Rotate ==
    /\ origin = CurrentResponse
    /\ origin' = RotatedResponse(clock)
    /\ UNCHANGED <<clock, kvCache, remote_server_keys, calls>>
    /\ KeysUnchanged

CallerStep(c) == KvGet(c) \/ D1Select(c) \/ D1Write(c) \/ KvPut(c) \/ Return(c)

NextKeys ==
    \/ \E c \in Callers : Call(c) \/ CallerStep(c) \/ FetchEnds(c)
    \/ Tick
    \/ KvExpire
    \/ Rotate

SpecKeys == InitKeys /\ [][NextKeys]_vars

\* the runtime completes every awaited KV and D1 operation and resumes the
\* caller; nothing obliges the origin to answer
SpecKeysFair == SpecKeys /\ \A c \in Callers : WF_vars(CallerStep(c))

(***************************************************************************)
(* Outbound federation requests: makeFederationRequest                      *)
(* (services/federation-keys.ts), sendFederationTransaction                 *)
(* (consumers/federation-consumer.ts) and processFederationQueue of the     *)
(* federation Durable Object.  A request is recorded as it is handed to     *)
(* fetch: method, destination, path and headers.                            *)
(***************************************************************************)
LocalServerName == "hs"
Destinations == {"x", "y"}
Methods == {"GET", "POST", "PUT"}
\* the requests recorded in a run
MaxRequests == 3

\* the server's current signing key (server_keys), or none
LocalSigningKey == [keyId |-> "ed25519:hs", privateKeyJwk |-> "Khs"]
SigningKeys == {NoEvent, LocalSigningKey}

\* the pdus of a transaction
Batches == {<<"$e1">>, <<"$e1", "$e2">>}

\* the X-Matrix Authorization header: the signature of signJson over
\* {method, uri, origin, destination} under the signing key
signFederationRequest(method, uri, org, destination, signingKey) == [scheme |-> "X-Matrix", origin |-> org, destination |-> destination, key |-> signingKey.keyId, sig |-> [by |-> signingKey.privateKeyJwk, over |-> <<method, uri, org, destination>>]]

\* the request makeFederationRequest hands to fetch
makeFederationRequest(method, serverName, path, localServerName, signingKey) == [method |-> method, destination |-> serverName, path |-> path, headers |-> [Authorization |-> signFederationRequest(method, path, localServerName, serverName, signingKey), Content_Type |-> "application/json", Accept |-> "application/json"]]

\* the request sendFederationTransaction hands to fetch; the body is signed
\* when a key exists, the headers are the same either way
sendFederationTransaction(destination, data, signingKey) == [method |-> "PUT", destination |-> destination, path |-> "/_matrix/federation/v1/send", headers |-> [Content_Type |-> "application/json"], body |-> [pdus |-> data, origin |-> LocalServerName, signed |-> signingKey # NoEvent]]

\* the request processFederationQueue hands to fetch
processFederationQueue(destination, pdus) == [method |-> "PUT", destination |-> destination, path |-> "/_matrix/federation/v1/send", headers |-> [Content_Type |-> "application/json"], body |-> [pdus |-> pdus]]

InitFed ==
    /\ pc = "input"
    /\ roomVersion = Undefined
    /\ outbound = << >>
    /\ ResIdle /\ AuthIdle /\ IncIdle /\ DepIdle /\ KeysIdle /\ ExtIdle

FedUnchanged == UNCHANGED <<pc, roomVersion, resVars, authVars, incVars, depVars, keyVars, extVars>>

\* federationGet / federationPost / federationPut with a configured key
MakeFederationRequest ==
    /\ Len(outbound) < MaxRequests
    /\ \E method \in Methods, destination \in Destinations :
          outbound' = Append(outbound, makeFederationRequest(method, destination, "/_matrix/federation/v1/query", LocalServerName, LocalSigningKey))
    /\ FedUnchanged

\* the queue consumer sends the batch of one destination
SendFederationTransaction ==
    /\ Len(outbound) < MaxRequests
    /\ \E destination \in Destinations, data \in Batches, signingKey \in SigningKeys :
          outbound' = Append(outbound, sendFederationTransaction(destination, data, signingKey))
    /\ FedUnchanged

\* the Durable Object sends what is queued for one destination
ProcessFederationQueue ==
    /\ Len(outbound) < MaxRequests
    /\ \E destination \in Destinations, pdus \in Batches :
          outbound' = Append(outbound, processFederationQueue(destination, pdus))
    /\ FedUnchanged

NextFed == MakeFederationRequest \/ SendFederationTransaction \/ ProcessFederationQueue

SpecFed == InitFed /\ [][NextFed]_vars

(***************************************************************************)
(* The federation Durable Object (unnamed/part_001).  While a handler       *)
(* awaits a storage operation the object delivers no other event, so a      *)
(* handler runs without interruption up to its fetch to the remote server   *)
(* and again from the response to its end; other requests and the alarm     *)
(* are served while the fetch is awaited.                                   *)
(***************************************************************************)
Minute == 60000
MaxDelay == 3600000
MaxSends == 2
MaxReceives == 1
MaxTicks == 2

EventIds == <<"$e1", "$e2">>
\* the server: keys in the order storage.list returns them
DestinationOrder == <<"x", "y">>

OutboundEvent(id, destination, created, retries) == [event_id |-> id, destination |-> destination, created_at |-> created, retry_count |-> retries]
FederationTarget(serverName, lastContact, retryCount, nextRetry) == [serverName |-> serverName, lastContact |-> lastContact, retryCount |-> retryCount, nextRetry |-> nextRetry]
\* nextRetry: null
Null == 0

\* ctx.storage.put and ctx.storage.delete on the entries of one prefix
StoragePut(entries, key, value) == [k \in DOMAIN entries \cup {key} |-> IF k = key THEN value ELSE entries[k]]
StorageDelete(entries, keys) == [k \in DOMAIN entries \ keys |-> entries[k]]

\* ctx.storage.list({ prefix: 'queue:<destination>:' }), in key order
ListQueue(st, destination) ==
    LET ids == SelectSeq(EventIds, LAMBDA id : <<destination, id>> \in DOMAIN st.queue)
    IN  [i \in 1..Len(ids) |-> st.queue[<<destination, ids[i]>>]]

\* ctx.storage.list({ prefix: 'edu:<destination>:' }): the keys, which
\* begin with the time of their creation
ListEduKeys(st, destination) == SelectSeq(st.edu, LAMBDA key : key[1] = destination)

\* ctx.storage.list({ prefix: 'server:' })
ListServers(st) ==
    LET names == SelectSeq(DestinationOrder, LAMBDA d : d \in DOMAIN st.server)
    IN  [i \in 1..Len(names) |-> st.server[names[i]]]

\* events.sort((a, b) => a.created_at - b.created_at), a stable sort
RECURSIVE InsertByCreatedAt(_, _)
InsertByCreatedAt(x, sorted) ==
    IF sorted = << >> THEN <<x>>
    ELSE IF x.created_at < Head(sorted).created_at THEN <<x>> \o sorted
    ELSE <<Head(sorted)>> \o InsertByCreatedAt(x, Tail(sorted))

RECURSIVE SortByCreatedAt(_, _)
SortByCreatedAt(items, sorted) ==
    IF items = << >> THEN sorted
    ELSE SortByCreatedAt(Tail(items), InsertByCreatedAt(Head(items), sorted))

\* part_001:238-281, the transaction processFederationQueue sends and
\* awaits; NoEvent when nothing is queued and it returns at once
Transaction(st, destination, handler, rest) ==
    IF ListQueue(st, destination) = << >> /\ ListEduKeys(st, destination) = << >> THEN NoEvent
    ELSE [destination |-> destination,
          events |-> SortByCreatedAt(ListQueue(st, destination), << >>),
          eduKeyNames |-> ListEduKeys(st, destination),
          handler |-> handler,
          rest |-> rest]

\* part_001:315
Delay(retryCount) == IF Minute * Pow(2, retryCount - 1) < MaxDelay THEN Minute * Pow(2, retryCount - 1) ELSE MaxDelay

\* part_001:327-331, the events of the transaction are written back
RECURSIVE PutEvents(_, _, _, _)
PutEvents(queue, destination, events, retryCount) ==
    IF events = << >> THEN queue
    ELSE PutEvents(StoragePut(queue, <<destination, Head(events).event_id>>, [Head(events) EXCEPT !.retry_count = retryCount]), destination, Tail(events), retryCount)

RetryCountOf(st, destination) == IF destination \in DOMAIN st.server THEN st.server[destination].retryCount ELSE 0
LastContactOf(st, destination) == IF destination \in DOMAIN st.server THEN st.server[destination].lastContact ELSE 0

\* part_001:310-335, the storage after scheduleRetry; the alarm is set to
\* the nextRetry of the new target
scheduleRetry(st, destination, events, now) ==
    LET retryCount == RetryCountOf(st, destination) + 1
        nextRetry == now + Delay(retryCount)
        newTarget == FederationTarget(destination, LastContactOf(st, destination), retryCount, nextRetry)
    IN  [st EXCEPT !.server = StoragePut(st.server, destination, newTarget),
                   !.queue = PutEvents(st.queue, destination, events, retryCount)]

\* part_001:284-286, with every queued event of the destination removed
RemoveSent_AllQueued(queue, destination, events) == StorageDelete(queue, {key \in DOMAIN queue : key[1] = destination})

\* part_001:284-286
RemoveSent(queue, destination, events) == StorageDelete(queue, {<<destination, events[i].event_id>> : i \in 1..Len(events)})

\* part_001:282-299, the storage after a 2xx response
Sent(st, txn, now) ==
    [st EXCEPT !.queue = RemoveSent(st.queue, txn.destination, txn.events),
               !.edu = SelectSeq(st.edu, LAMBDA key : key \notin Range(txn.eduKeyNames)),
               !.server = StoragePut(st.server, txn.destination, FederationTarget(txn.destination, now, 0, Null))]

\* part_001:341-346, the loop of alarm() over the listed targets up to the
\* next transaction it awaits; NoEvent when the loop ends
RECURSIVE alarm(_, _, _)
alarm(st, targets, now) ==
    IF targets = << >> THEN NoEvent
    ELSE IF Head(targets).nextRetry # Null /\ Head(targets).nextRetry <= now /\ Transaction(st, Head(targets).serverName, "alarm", Tail(targets)) # NoEvent
    THEN Transaction(st, Head(targets).serverName, "alarm", Tail(targets))
    ELSE alarm(st, Tail(targets), now)

Started(txn) == IF txn = NoEvent THEN EmptyBag ELSE SetToBag({txn})
KeysOf(txn) == {<<txn.destination, txn.events[i].event_id>> : i \in 1..Len(txn.events)}

InitObject ==
    /\ pc = "input"
    /\ roomVersion = Undefined
    /\ dateNow = Minute
    /\ storage = [queue |-> << >>, edu |-> << >>, server |-> << >>]
    /\ alarmAt = 0
    /\ transactions = EmptyBag
    /\ history = [sends |-> 0, receives |-> 0, failures |-> [d \in Destinations |-> 0], delivered |-> {}, requeued |-> {}]
    /\ ResIdle /\ AuthIdle /\ IncIdle /\ DepIdle /\ KeysIdle /\ FedIdle /\ CryptoIdle /\ ConsumerIdle

ObjectUnchanged == UNCHANGED <<pc, roomVersion, resVars, authVars, incVars, depVars, keyVars, fedVars, cryptoVars, consumerVars>>

\* POST /send: part_001:62-87 up to the fetch of processFederationQueue
HandleSend(destination, id) ==
    /\ history.sends < MaxSends
    /\ LET st == [storage EXCEPT !.queue = StoragePut(storage.queue, <<destination, id>>, OutboundEvent(id, destination, dateNow, 0))]
       IN  /\ storage' = st
           /\ transactions' = transactions (+) Started(Transaction(st, destination, "handleSend", << >>))
    /\ history' = [history EXCEPT !.sends = @ + 1, !.delivered = @ \ {<<destination, id>>},
                                  !.requeued = IF <<destination, id>> \in DOMAIN storage.queue \/ \E txn \in BagToSet(transactions) : <<destination, id>> \in KeysOf(txn)
                                               THEN @ \cup {<<destination, id>>} ELSE @]
    /\ UNCHANGED <<dateNow, alarmAt>>
    /\ ObjectUnchanged

\* POST /send-edu: part_001:214-236 up to the fetch
HandleSendEdu(destination) ==
    /\ history.sends < MaxSends
    /\ LET st == [storage EXCEPT !.edu = Append(storage.edu, <<destination, dateNow, history.sends>>)]
       IN  /\ storage' = st
           /\ transactions' = transactions (+) Started(Transaction(st, destination, "handleSendEdu", << >>))
    /\ history' = [history EXCEPT !.sends = @ + 1]
    /\ UNCHANGED <<dateNow, alarmAt>>
    /\ ObjectUnchanged

\* POST /receive with an X-Matrix-Origin header and a transaction without
\* PDUs: part_001:90-133
HandleReceive(org) ==
    /\ history.receives < MaxReceives
    /\ storage' = [storage EXCEPT !.server = StoragePut(storage.server, org, FederationTarget(org, dateNow, 0, Null))]
    /\ history' = [history EXCEPT !.receives = @ + 1]
    /\ UNCHANGED <<dateNow, alarmAt, transactions>>
    /\ ObjectUnchanged

\* the fetch of transaction i settles: part_001:282-307, then the rest of
\* the handler that awaited it
FetchSettles(txn, ok) ==
    /\ BagIn(txn, transactions)
    /\ LET st == IF ok THEN Sent(storage, txn, dateNow) ELSE scheduleRetry(storage, txn.destination, txn.events, dateNow)
       IN  /\ storage' = st
           /\ alarmAt' = IF ok THEN alarmAt ELSE st.server[txn.destination].nextRetry
           /\ transactions' = (transactions (-) SetToBag({txn})) (+) (IF txn.handler = "alarm" THEN Started(alarm(st, txn.rest, dateNow)) ELSE EmptyBag)
           /\ history' = [history EXCEPT !.failures[txn.destination] = IF ok THEN 0 ELSE @ + 1,
                                         !.delivered = IF ok THEN @ \cup KeysOf(txn) ELSE @]
    /\ UNCHANGED dateNow
    /\ ObjectUnchanged

\* the alarm is due and alarm() runs: part_001:337-347 up to its first fetch
AlarmFires ==
    /\ alarmAt # 0
    /\ alarmAt <= dateNow
    /\ \A txn \in BagToSet(transactions) : txn.handler # "alarm"
    /\ alarmAt' = 0
    /\ transactions' = transactions (+) Started(alarm(storage, ListServers(storage), dateNow))
    /\ UNCHANGED <<dateNow, storage, history>>
    /\ ObjectUnchanged

\* a minute passes
TimePasses ==
    /\ dateNow < Minute * (1 + MaxTicks)
    /\ dateNow' = dateNow + Minute
    /\ UNCHANGED <<storage, alarmAt, transactions, history>>
    /\ ObjectUnchanged

NextObject ==
    \/ \E destination \in Destinations, i \in 1..Len(EventIds) : HandleSend(destination, EventIds[i])
    \/ \E destination \in Destinations : HandleSendEdu(destination)
    \/ \E org \in Destinations : HandleReceive(org)
    \/ \E txn \in BagToSet(transactions), ok \in BOOLEAN : FetchSettles(txn, ok)
    \/ AlarmFires
    \/ TimePasses

SpecObject == InitObject /\ [][NextObject]_vars

(***************************************************************************)
(* Properties of checkEventAuth.  The room state, the memberships and the   *)
(* power levels are read here from the roomState argument itself.           *)
(***************************************************************************)
Checked == pc = "checkEventAuth"

\* the event of a slot of the room state, NoEvent when the slot is empty
SlotEvent(type, key) ==
    IF \E i \in 1..Len(roomState) :
          roomState[i].type = type /\ roomState[i].state_key = key
    THEN roomState[CHOOSE i \in 1..Len(roomState) :
                      roomState[i].type = type /\ roomState[i].state_key = key]
    ELSE NoEvent

\* content of the current m.room.power_levels event, empty when there is none
CurrentLevels ==
    IF SlotEvent("m.room.power_levels", "") = NoEvent THEN << >>
    ELSE SlotEvent("m.room.power_levels", "").content

\* users[u], else users_default, else 0
PowerOf(u) ==
    IF "users" \in DOMAIN CurrentLevels /\ u \in DOMAIN CurrentLevels.users
    THEN CurrentLevels.users[u]
    ELSE IF "users_default" \in DOMAIN CurrentLevels THEN CurrentLevels.users_default
    ELSE 0

LevelOf(name, dflt) ==
    IF name \in DOMAIN CurrentLevels THEN CurrentLevels[name] ELSE dflt

CurrentMembership(u) ==
    IF SlotEvent("m.room.member", u) = NoEvent THEN "none"
    ELSE IF "membership" \in DOMAIN SlotEvent("m.room.member", u).content
    THEN SlotEvent("m.room.member", u).content.membership
    ELSE "none"

CurrentJoinRule ==
    IF SlotEvent("m.room.join_rules", "") = NoEvent THEN "invite"
    ELSE SlotEvent("m.room.join_rules", "").content.join_rule

\* a supported room version and a room state that holds its m.room.create event
InRoom ==
    /\ roomVersion \in {"1", "2", "3", "4", "5", "6", "7", "8", "9", "10", "11", "12"}
    /\ SlotEvent("m.room.create", "") # NoEvent

IsMemberEvent(m) ==
    /\ Checked /\ InRoom
    /\ event.type = "m.room.member"
    /\ "membership" \in DOMAIN event.content
    /\ event.content.membership = m

BootstrapLevels == [users |-> [u \in {"@a"} |-> 100]]

\* C6: with only the m.room.create event of @a in the room state, @a's
\* m.room.power_levels event with users {@a: 100} is authorized, and the same
\* event sent by @b is rejected for insufficient power (have 0, need 50).
C6_CreatorBootstrap ==
    (/\ Checked
     /\ roomVersion \in DOMAIN ROOM_VERSIONS
     /\ roomState = <<CreateEvent>>
     /\ event.type = "m.room.power_levels"
     /\ event.content = BootstrapLevels)
    => /\ event.sender = "@a" => authResult.allowed
       /\ event.sender = "@b" => authResult = RejectPower(0, 50)

\* C7: a leave event on another user (kick or unban) is allowed only if the
\* sender is joined, the sender's power is >= the kick level (>= the ban level
\* when the target is banned) and strictly greater than the target's power.
C7_KickUnbanNeedsHigherPower ==
    (IsMemberEvent("leave") /\ event.state_key # event.sender /\ authResult.allowed)
    => /\ CurrentMembership(event.sender) = "join"
       /\ PowerOf(event.sender) >=
             (IF CurrentMembership(event.state_key) = "ban"
              THEN LevelOf("ban", 50) ELSE LevelOf("kick", 50))
       /\ PowerOf(event.sender) > PowerOf(event.state_key)

\* C8: a ban event is allowed iff the sender is joined, the sender's power is
\* >= the ban level (default 50) and strictly greater than the target's power.
C8_BanRule ==
    IsMemberEvent("ban")
    => (authResult.allowed <=>
          /\ CurrentMembership(event.sender) = "join"
          /\ PowerOf(event.sender) >= LevelOf("ban", 50)
          /\ PowerOf(event.sender) > PowerOf(event.state_key))

\* a ban by a joined sender who meets the ban level and whose power equals the
\* target's has been checked and rejected
C8_Witness ==
    /\ IsMemberEvent("ban")
    /\ CurrentMembership(event.sender) = "join"
    /\ PowerOf(event.sender) >= LevelOf("ban", 50)
    /\ PowerOf(event.sender) = PowerOf(event.state_key)
    /\ ~authResult.allowed

RestrictedJoinVersions == {"8", "9", "10", "11", "12"}

JoinVia ==
    IF "join_authorised_via_users_server" \in DOMAIN event.content
    THEN event.content.join_authorised_via_users_server ELSE "none"

\* the restricted-join case: a restricted or knock_restricted room of version
\* 8 or later, and the named user is joined with power >= the invite level
RestrictedJoinAuthorised ==
    /\ roomVersion \in RestrictedJoinVersions
    /\ CurrentJoinRule \in {"restricted", "knock_restricted"}
    /\ JoinVia # "none"
    /\ CurrentMembership(JoinVia) = "join"
    /\ PowerOf(JoinVia) >= LevelOf("invite", 0)

C10_InviteRule ==
    IsMemberEvent("invite")
    => (authResult.allowed <=>
          /\ CurrentMembership(event.sender) = "join"
          /\ CurrentMembership(event.state_key) \notin {"ban", "join"}
          /\ PowerOf(event.sender) >= LevelOf("invite", 0))

\* an invite by a joined sender to an invitable target has been rejected
\* because the sender's power is below the invite level
C10_Witness ==
    /\ IsMemberEvent("invite")
    /\ CurrentMembership(event.sender) = "join"
    /\ CurrentMembership(event.state_key) \notin {"ban", "join"}
    /\ PowerOf(event.sender) < LevelOf("invite", 0)
    /\ ~authResult.allowed

KnockVersions == {"7", "8", "9", "10", "11", "12"}

C11_WitnessAllowed ==
    /\ IsMemberEvent("knock")
    /\ roomVersion = "7"
    /\ CurrentJoinRule = "knock_restricted"
    /\ authResult.allowed

\* an m.room.create event has been checked in a supported room version
CreateChecked ==
    /\ Checked
    /\ roomVersion \in {"1", "2", "3", "4", "5", "6", "7", "8", "9", "10", "11", "12"}
    /\ event.type = "m.room.create"

NoPrevEvents == "prev_events" \notin DOMAIN event \/ event.prev_events = << >>

EmptyStateKey == "state_key" \in DOMAIN event /\ event.state_key = ""

\* the content field is present and is not the empty string
NonEmptyField(f) == f \in DOMAIN event.content /\ event.content[f] # ""

C12_WitnessAllowed ==
    /\ CreateChecked
    /\ SlotEvent("m.room.create", "") # NoEvent
    /\ CurrentMembership(event.sender) = "ban"
    /\ authResult.allowed

\* an event that is neither m.room.create nor m.room.member has been checked
OtherChecked == Checked /\ event.type \notin {"m.room.create", "m.room.member"}

\* C13: an event that is neither m.room.create nor m.room.member is allowed
\* only if the room state holds an m.room.create event and the sender's
\* current m.room.member event has membership join.
C13_CreatePresentAndSenderJoined ==
    (OtherChecked /\ authResult.allowed)
    => /\ SlotEvent("m.room.create", "") # NoEvent
       /\ CurrentMembership(event.sender) = "join"

\* a message of a sender with power 100 who is invited, not joined, has been
\* rejected in a room that holds its create event
C13_Witness ==
    /\ OtherChecked /\ InRoom
    /\ event.type = "m.room.message"
    /\ CurrentMembership(event.sender) = "invite"
    /\ PowerOf(event.sender) = 100
    /\ ~authResult.allowed

\* a state event of a joined sender has been allowed
C13_WitnessAllowed ==
    /\ OtherChecked /\ InRoom
    /\ "state_key" \in DOMAIN event
    /\ CurrentMembership(event.sender) = "join"
    /\ authResult.allowed

\* an event of a type other than create, member and third_party_invite, sent
\* by a joined sender, has been checked
PowerChecked ==
    /\ Checked /\ InRoom
    /\ event.type \notin {"m.room.create", "m.room.member", "m.room.third_party_invite"}
    /\ CurrentMembership(event.sender) = "join"

\* events[type] when that entry exists, otherwise state_default (default 50)
\* for state events and events_default (default 0) for non-state events
RequiredLevel ==
    IF "events" \in DOMAIN CurrentLevels /\ event.type \in DOMAIN CurrentLevels.events
    THEN CurrentLevels.events[event.type]
    ELSE IF "state_key" \in DOMAIN event THEN LevelOf("state_default", 50)
    ELSE LevelOf("events_default", 0)

\* C14: for a joined sender and a type other than create, member and
\* third_party_invite, the event is rejected (have, need) whenever the
\* sender's power is below the required level; an event subject to no further
\* rule (not power_levels, not redaction) is allowed when it is not below.
C14_RequiredPowerLevel ==
    PowerChecked
    => /\ PowerOf(event.sender) < RequiredLevel
            => authResult = RejectPower(PowerOf(event.sender), RequiredLevel)
       /\ (/\ PowerOf(event.sender) >= RequiredLevel
           /\ event.type \notin {"m.room.power_levels", "m.room.redaction"})
            => authResult.allowed

\* a message of a joined sender has been rejected because events[type] is above
\* the sender's power, although events_default is not
C14_Witness ==
    /\ PowerChecked
    /\ "state_key" \notin DOMAIN event
    /\ "events" \in DOMAIN CurrentLevels /\ event.type \in DOMAIN CurrentLevels.events
    /\ LevelOf("events_default", 0) <= PowerOf(event.sender)
    /\ PowerOf(event.sender) < RequiredLevel
    /\ ~authResult.allowed

\* a state event without an events entry has been rejected for state_default
C14_WitnessStateDefault ==
    /\ PowerChecked
    /\ "state_key" \in DOMAIN event
    /\ RequiredLevel = LevelOf("state_default", 50)
    /\ PowerOf(event.sender) < RequiredLevel
    /\ ~authResult.allowed

\* an m.room.power_levels event has been checked
LevelsChecked == Checked /\ InRoom /\ event.type = "m.room.power_levels"

\* the entries of a table (events, users, notifications) of a power-levels content
TableOf(content, table) == IF table \in DOMAIN content THEN content[table] ELSE << >>

\* the values of the new content other than notifications: the level scalars
\* and the entries of events and users
NewScalarEventUserValues ==
    {event.content[f] : f \in PowerLevelScalars \cap DOMAIN event.content}
    \cup {TableOf(event.content, "events")[t] : t \in DOMAIN TableOf(event.content, "events")}
    \cup {TableOf(event.content, "users")[u] : u \in DOMAIN TableOf(event.content, "users")}

NewNotificationValues ==
    {TableOf(event.content, "notifications")[k] :
        k \in DOMAIN TableOf(event.content, "notifications")}

\* C15: every m.room.power_levels event in which a level scalar or an entry of
\* events, users or notifications is greater than the sender's current power
\* is rejected.
C15_NoValueAboveSender ==
    (LevelsChecked /\ authResult.allowed)
    => \A v \in NewScalarEventUserValues \cup NewNotificationValues :
          ~NumLess(PowerOf(event.sender), v)

\* the part of C15 the code enforces: no level scalar and no entry of events
\* or users of an allowed power-levels event is above the sender's power
C15_ScalarsEventsUsersBounded ==
    (LevelsChecked /\ authResult.allowed)
    => \A v \in NewScalarEventUserValues : ~NumLess(PowerOf(event.sender), v)

\* a field of the current power-levels content whose value is strictly greater
\* than the sender's power: a level scalar, or an entry of a table
ProtectedScalars ==
    {f \in PowerLevelScalars \cap DOMAIN CurrentLevels :
        CurrentLevels[f] > PowerOf(event.sender)}

ProtectedEntries(table) ==
    {k \in DOMAIN TableOf(CurrentLevels, table) :
        TableOf(CurrentLevels, table)[k] > PowerOf(event.sender)}

\* the new content holds the entry with the value it has in the current content
EntryKept(table, k) ==
    /\ k \in DOMAIN TableOf(event.content, table)
    /\ TableOf(event.content, table)[k] = TableOf(CurrentLevels, table)[k]

\* C16: every authorized m.room.power_levels event leaves unchanged (neither
\* changed nor removed) each field whose current value is strictly greater
\* than the sender's power.
C16_ProtectedFieldsUnchanged ==
    (LevelsChecked /\ authResult.allowed)
    => /\ \A f \in ProtectedScalars :
             f \in DOMAIN event.content /\ event.content[f] = CurrentLevels[f]
       /\ \A table \in {"events", "users", "notifications"} :
             \A k \in ProtectedEntries(table) : EntryKept(table, k)

\* old users entry, else old users_default, else 0
OldLevelOf(u) == PowerOf(u)

\* the users entry of u is raised, lowered, added or removed by the event
UserEntryChanged(u) ==
    LET old == TableOf(CurrentLevels, "users")
        new == TableOf(event.content, "users")
    IN  \/ (u \in DOMAIN old) # (u \in DOMAIN new)
        \/ u \in DOMAIN old /\ u \in DOMAIN new /\ old[u] # new[u]

\* C17: an m.room.power_levels event that changes the users entry of a user
\* other than the sender is allowed only if that user's old level is strictly
\* less than the sender's power.
C17_OtherUsersBelowSender ==
    (LevelsChecked /\ authResult.allowed)
    => \A u \in Users \ {event.sender} :
          UserEntryChanged(u) => OldLevelOf(u) < PowerOf(event.sender)

\* the part of C17 the code enforces: the entry of another user that the new
\* content holds with a value other than that user's old level
C17_NewEntriesOfOthersBelowSender ==
    (LevelsChecked /\ authResult.allowed)
    => \A u \in DOMAIN TableOf(event.content, "users") \ {event.sender} :
          TableOf(event.content, "users")[u] # OldLevelOf(u)
              => OldLevelOf(u) < PowerOf(event.sender)

IntegerVersions == {"10", "11", "12"}

IntegerError == Reject("Power levels must be integers in this room version")

\* a numeric field of the new power-levels content is not an integer
HasNonInteger ==
    \E v \in NewScalarEventUserValues \cup NewNotificationValues : Twice(v) % 2 = 1

C18_WitnessAccepted ==
    /\ LevelsChecked /\ HasNonInteger
    /\ roomVersion = "8"
    /\ authResult.allowed

\* an m.room.redaction event of a joined sender who has the level required
\* for the event type has been checked
RedactionChecked ==
    /\ PowerChecked
    /\ event.type = "m.room.redaction"
    /\ PowerOf(event.sender) >= RequiredLevel

\* the event named by `redacts` is in the room state and has the same sender
RedactsOwnEvent ==
    \E i \in 1..Len(roomState) :
        roomState[i].event_id = event.redacts /\ roomState[i].sender = event.sender

\* C19: a redaction of a joined sender is allowed iff the sender's power is
\* >= the redact level (default 50) or the sender redacts their own event.
C19_RedactionRule ==
    RedactionChecked
    => (authResult.allowed <=>
          \/ PowerOf(event.sender) >= LevelOf("redact", 50)
          \/ RedactsOwnEvent)

\* the part of C19 the code enforces: a redaction is allowed iff the sender's
\* power is >= the redact level, whoever sent the redacted event
C19_RedactLevelOnly ==
    RedactionChecked
    => (authResult.allowed <=> PowerOf(event.sender) >= LevelOf("redact", 50))

\* C38: in a room state where the sender's membership is ban, the sender's
\* own join event is rejected, for every join rule and room version.
C38_BannedCannotRejoin ==
    (/\ IsMemberEvent("join")
     /\ event.sender = event.state_key
     /\ CurrentMembership(event.sender) = "ban")
    => ~authResult.allowed

\* the part of C38 that holds: in an invite-only or knock room a banned user's
\* own join is rejected
C38_BannedCannotRejoinClosedRoom ==
    (/\ IsMemberEvent("join")
     /\ event.sender = event.state_key
     /\ CurrentMembership(event.sender) = "ban"
     /\ CurrentJoinRule \in {"invite", "knock"})
    => ~authResult.allowed

\* content of the m.room.power_levels event of a room state
LevelsIn(state) ==
    IF \E i \in 1..Len(state) : state[i].type = "m.room.power_levels"
    THEN state[CHOOSE i \in 1..Len(state) : state[i].type = "m.room.power_levels"].content
    ELSE << >>

\* the effective level of a user: users[u], else users_default, else 0
EffectiveLevel(state, u) ==
    IF "users" \in DOMAIN LevelsIn(state) /\ u \in DOMAIN LevelsIn(state).users
    THEN LevelsIn(state).users[u]
    ELSE IF "users_default" \in DOMAIN LevelsIn(state) THEN LevelsIn(state).users_default
    ELSE 0

\* the users with an entry, and one without (who holds users_default)
LevelHolders == Users \cup {Stranger}

\* an authorized power-levels event has just entered the room state
LevelsReplaced == pc' = "sendPowerLevels" /\ authResult'.allowed

\* C39: over any sequence of authorized m.room.power_levels events the
\* maximum effective user level never increases, and no user holds a level
\* above the one the sender of the event held when it was sent.
C39_NoEscalationOverTime ==
    [][LevelsReplaced =>
          /\ \A u \in LevelHolders : \E v \in LevelHolders : EffectiveLevel(roomState', u) <= EffectiveLevel(roomState, v)
          /\ \A u \in LevelHolders : EffectiveLevel(roomState', u) <= EffectiveLevel(roomState, event'.sender)]_vars

\* the part of C39 that holds: the same, for a sender whose level is not
\* negative
C39_NoEscalationByNonNegativeSender ==
    [][(LevelsReplaced /\ EffectiveLevel(roomState, event'.sender) >= 0) =>
          /\ \A u \in LevelHolders : \E v \in LevelHolders : EffectiveLevel(roomState', u) <= EffectiveLevel(roomState, v)
          /\ \A u \in LevelHolders : EffectiveLevel(roomState', u) <= EffectiveLevel(roomState, event'.sender)]_vars

RECURSIVE ContainsNonFinite(_)
ContainsNonFinite(v) ==
    IF v.type = "number" THEN "nonfinite" \in DOMAIN v
    ELSE IF v.type = "array" THEN \E i \in 1..Len(v.items) : ContainsNonFinite(v.items[i])
    ELSE IF v.type = "object" THEN \E i \in 1..Len(v.entries) : ContainsNonFinite(v.entries[i].value)
    ELSE FALSE

\* C31: canonicalJson rejects an input that contains NaN, +Infinity or
\* -Infinity at any depth with InvalidJson instead of encoding it.
C31_NonFiniteRejected ==
    (pc = "canonicalJson" /\ ContainsNonFinite(jsonIn)) => jsonOut = [thrown |-> "InvalidJson"]

\* what the code does instead: every non-finite number is encoded as null,
\* so the encoding equals that of the input with null in its place
RECURSIVE NonFiniteAsNull(_)
NonFiniteAsNull(v) ==
    IF v.type = "number" THEN (IF "nonfinite" \in DOMAIN v THEN JsNull ELSE v)
    ELSE IF v.type = "array" THEN JsArray([i \in 1..Len(v.items) |-> NonFiniteAsNull(v.items[i])])
    ELSE IF v.type = "object" THEN JsObject([i \in 1..Len(v.entries) |-> Property(v.entries[i].key, NonFiniteAsNull(v.entries[i].value))])
    ELSE v

C31_NonFiniteEncodedAsNull ==
    pc = "canonicalJson" => jsonOut = [returned |-> canonicalJson(NonFiniteAsNull(jsonIn))]

SignaturePairs == SigningServers \X SigningKeyIds
HasSignature(obj, pair) ==
    /\ HasProperty(obj, "signatures")
    /\ HasProperty(GetProperty(obj, "signatures"), pair[1])
    /\ HasProperty(GetProperty(GetProperty(obj, "signatures"), pair[1]), pair[2])
SignatureAt(obj, pair) == GetProperty(GetProperty(GetProperty(obj, "signatures"), pair[1]), pair[2])
OtherFields(obj) == {e \in Range(obj.entries) : e.key # "signatures"}
SignedBy(out) == <<out.serverName, out.keyId>>

\* C32: signJson only adds.  Every (server, key_id) -> signature entry of
\* the input other than (s, k) is in the result unchanged, (s, k) holds the
\* new signature, every other top-level field (unsigned included) is
\* returned unchanged, and the signed bytes are those of the input without
\* signatures and unsigned.
C32_SignJsonOnlyAdds ==
    pc = "signJson" =>
        /\ \A pair \in SignaturePairs \ {SignedBy(jsonOut)} :
              /\ HasSignature(jsonIn, pair) => (HasSignature(jsonOut.returned, pair) /\ SignatureAt(jsonOut.returned, pair) = SignatureAt(jsonIn, pair))
              /\ HasSignature(jsonOut.returned, pair) => HasSignature(jsonIn, pair)
        /\ HasSignature(jsonOut.returned, SignedBy(jsonOut))
        /\ SignatureAt(jsonOut.returned, SignedBy(jsonOut)).signedBy = "privateKey"
        /\ SignatureAt(jsonOut.returned, SignedBy(jsonOut)).over = canonicalJson(JsObject(SelectSeq(jsonIn.entries, LAMBDA e : e.key \notin {"signatures", "unsigned"})))
        /\ OtherFields(jsonOut.returned) = OtherFields(jsonIn)
        /\ SelectSeq(ObjectKeys(jsonOut.returned), LAMBDA k : k # "signatures") = SelectSeq(ObjectKeys(jsonIn), LAMBDA k : k # "signatures")

\* an object with unsigned data and signatures of both servers is signed
\* again by a server under a key id it had already signed with
C32_Witness ==
    /\ pc = "signJson"
    /\ HasProperty(jsonIn, "unsigned")
    /\ HasSignature(jsonIn, <<"other.org", "ed25519:1">>)
    /\ HasSignature(jsonIn, <<"example.org", "ed25519:2">>)
    /\ HasSignature(jsonIn, SignedBy(jsonOut))
    /\ jsonOut.serverName = "example.org"
    /\ SignatureAt(jsonOut.returned, SignedBy(jsonOut)) # OldSignature

\* the settled result of the transaction to a destination of the batch
TransactionTo(destination) == sendResults[CHOOSE i \in 1..Len(sendResults) : GroupByDestination(batch, << >>)[i] = destination]
Succeeded(destination) == TransactionTo(destination) = Fulfilled(TRUE)

\* C37: every message of a batch is settled by exactly one call: ack() when
\* the transaction to its destination returned 2xx, retry() with a delay of
\* 2^attempts minutes when it failed and attempts < 5, ack() when it failed
\* and attempts >= 5; another destination's failure changes nothing.
C37_ConsumerSettlement ==
    pc = "handleFederationQueue" =>
        /\ Len(settlements) = Len(batch)
        /\ \A i \in 1..Len(batch) :
              /\ Len(settlements[i]) = 1
              /\ Succeeded(batch[i].destination) => settlements[i][1] = Ack
              /\ (~Succeeded(batch[i].destination) /\ batch[i].attempts < 5) => settlements[i][1] = Retry(60 * Pow(2, batch[i].attempts))
              /\ (~Succeeded(batch[i].destination) /\ batch[i].attempts >= 5) => settlements[i][1] = Ack

\* a batch for two destinations: the transaction to the first fails, the one
\* to the second succeeds; a message is retried, one is given up, one is
\* acknowledged as sent
C37_Witness ==
    /\ pc = "handleFederationQueue"
    /\ Len(batch) = 3
    /\ ~Succeeded(batch[1].destination)
    /\ \E i, j, k \in 1..Len(batch) :
          /\ batch[i].destination = batch[1].destination /\ settlements[i] = <<Retry(960)>>
          /\ batch[j].destination = batch[1].destination /\ batch[j].attempts = 5 /\ settlements[j] = <<Ack>>
          /\ batch[k].destination # batch[1].destination /\ batch[k].attempts = 1 /\ settlements[k] = <<Ack>>

\* C33: a PDU queued through /send stays under queue:<destination>:<event_id>
\* until a transaction to that destination whose body contained it has
\* returned 2xx: a key leaves the queue only in the step in which such a
\* transaction settles with a 2xx response.
C33_NoLossInQueue ==
    [][\A key \in DOMAIN storage.queue :
          key \notin DOMAIN storage'.queue =>
              \E txn \in BagToSet(transactions) : FetchSettles(txn, TRUE) /\ key \in KeysOf(txn)]_vars

\* one PDU has been delivered and is gone from the queue, another is kept
\* after a failed send and a third transaction is awaited
C33_Witness ==
    /\ \E key \in history.delivered : key \notin DOMAIN storage.queue
    /\ \E key \in DOMAIN storage.queue : storage.queue[key].retry_count >= 1 /\ key \notin history.delivered

Pending(destination) == ListQueue(storage, destination) # << >> \/ ListEduKeys(storage, destination) # << >>
InFlightTo(destination) == \E txn \in BagToSet(transactions) : txn.destination = destination
AlarmRunning == \E txn \in BagToSet(transactions) : txn.handler = "alarm"
NextRetryOf(destination) == IF destination \in DOMAIN storage.server THEN storage.server[destination].nextRetry ELSE Null

\* C34: a destination with items still queued after a failed send, while no
\* transaction to it is awaited and alarm() is not running, has a nextRetry
\* time and the alarm is set to fire no later than it, so that the retry
\* happens without a further /send request.
C34_RetryScheduled ==
    \A destination \in Destinations :
        (Pending(destination) /\ history.failures[destination] > 0 /\ ~InFlightTo(destination) /\ ~AlarmRunning) =>
            /\ NextRetryOf(destination) # Null
            /\ alarmAt # 0
            /\ alarmAt <= NextRetryOf(destination)

\* no destination is left with queued items after a failed send while
\* nothing is awaited and no alarm is set: from such a state only a further
\* /send or /send-edu request sends the items
C34_NeverStranded ==
    \A destination \in Destinations :
        ~(Pending(destination) /\ history.failures[destination] > 0 /\ ~InFlightTo(destination) /\ ~AlarmRunning /\ alarmAt = 0)

\* the same without /receive requests and with a single destination: the
\* retry of a destination whose sends failed is scheduled
C34_RetryScheduledForOneDestination ==
    \A destination \in Destinations :
        (Pending(destination) /\ history.failures[destination] > 0 /\ ~InFlightTo(destination) /\ ~AlarmRunning
            /\ history.receives = 0 /\ DOMAIN storage.server = {destination} /\ history.delivered = {}) =>
            /\ NextRetryOf(destination) # Null
            /\ alarmAt # 0
            /\ alarmAt <= NextRetryOf(destination)

\* min(60000 * 2^(n-1), 3600000)
Backoff(n) == IF n >= 7 THEN 3600000 ELSE 60000 * Pow(2, n - 1)

\* C35: after the n-th failed send in a row to a destination scheduleRetry
\* sets retryCount = n and nextRetry = now + min(60000 * 2^(n-1), 3600000);
\* a successful send resets retryCount to 0 and nextRetry to null.
C35_ExponentialBackoff ==
    [][\A txn \in BagToSet(transactions) :
          /\ FetchSettles(txn, FALSE) =>
                /\ storage'.server[txn.destination].retryCount = history'.failures[txn.destination]
                /\ storage'.server[txn.destination].nextRetry = dateNow + Backoff(history'.failures[txn.destination])
          /\ FetchSettles(txn, TRUE) =>
                /\ storage'.server[txn.destination].retryCount = 0
                /\ storage'.server[txn.destination].nextRetry = Null]_vars

\* without /receive requests the count is the number of failed sends in a row
C35_BackoffWithoutReceive ==
    [][\A txn \in BagToSet(transactions) :
          (FetchSettles(txn, FALSE) /\ history.receives = 0) =>
                /\ storage'.server[txn.destination].retryCount = history'.failures[txn.destination]
                /\ storage'.server[txn.destination].nextRetry = dateNow + Backoff(history'.failures[txn.destination])]_vars

\* what the code does: the count continues from the stored target, which a
\* /receive request of that server resets as well
C35_BackoffFromStoredCount ==
    [][\A txn \in BagToSet(transactions) :
          /\ FetchSettles(txn, FALSE) =>
                /\ storage'.server[txn.destination].retryCount = RetryCountOf(storage, txn.destination) + 1
                /\ storage'.server[txn.destination].nextRetry = dateNow + Backoff(RetryCountOf(storage, txn.destination) + 1)
          /\ FetchSettles(txn, TRUE) =>
                /\ storage'.server[txn.destination].retryCount = 0
                /\ storage'.server[txn.destination].nextRetry = Null]_vars

\* C36: a queued PDU is never in two transactions that are awaited at the
\* same time (a PDU that /send queued again while it was queued or being
\* sent is left out).
C36_NoDuplicateInFlight ==
    \A t1, t2 \in BagToSet(transactions) : (t1 # t2 \/ CopiesIn(t1, transactions) > 1) => KeysOf(t1) \cap KeysOf(t2) \subseteq history.requeued

\* C36, second part: a PDU delivered with a 2xx response and not queued
\* again by /send is in no transaction that alarm() starts afterwards.
C36_DeliveredNeverResent ==
    [][AlarmFires => \A txn \in BagToSet(transactions') : CopiesIn(txn, transactions') > CopiesIn(txn, transactions) => KeysOf(txn) \cap history.delivered \subseteq history.requeued]_vars

(***************************************************************************)
(* Properties of two checkEventAuth calls                                   *)
(***************************************************************************)
CheckedTwice == pc = "checkEventAuthTwice"

\* the event of a slot of a room state, NoEvent when the slot is empty
SlotEventIn(st, type, key) ==
    IF \E i \in 1..Len(st) : st[i].type = type /\ st[i].state_key = key
    THEN st[CHOOSE i \in 1..Len(st) : st[i].type = type /\ st[i].state_key = key]
    ELSE NoEvent

\* the slots the authorization of the event refers to: create, power_levels,
\* join_rules, and the member slots of the sender, of the state_key and of
\* content.join_authorised_via_users_server
ReferencedSlots ==
    {<<"m.room.create", "">>, <<"m.room.power_levels", "">>, <<"m.room.join_rules", "">>,
     <<"m.room.member", event.sender>>}
    \cup (IF "state_key" \in DOMAIN event THEN {<<"m.room.member", event.state_key>>} ELSE {})
    \cup (IF "join_authorised_via_users_server" \in DOMAIN event.content
          THEN {<<"m.room.member", event.content.join_authorised_via_users_server>>}
          ELSE {})

AgreeOnReferencedSlots ==
    \A slot \in ReferencedSlots :
        SlotEventIn(roomState, slot[1], slot[2]) = SlotEventIn(otherState, slot[1], slot[2])

\* C20: two valid room states that agree on the slots the event refers to
\* give the same checkEventAuth result, whatever their other entries.
C20_DependsOnReferencedStateOnly ==
    (CheckedTwice /\ AgreeOnReferencedSlots) => authResult = otherResult

\* an event has been allowed against two room states that agree on the slots
\* it refers to and differ in the member slot of another user and in the
\* m.room.name slot
C20_Witness ==
    /\ CheckedTwice /\ AgreeOnReferencedSlots
    /\ event.type = "m.room.member"
    /\ \E u \in Users \cup {Stranger} :
          SlotEventIn(roomState, "m.room.member", u) # SlotEventIn(otherState, "m.room.member", u)
    /\ SlotEventIn(roomState, "m.room.name", "") # SlotEventIn(otherState, "m.room.name", "")
    /\ authResult.allowed /\ otherResult.allowed

\* the two results differ when the states differ in a referenced slot
C20_WitnessDiffers ==
    /\ CheckedTwice /\ ~AgreeOnReferencedSlots
    /\ authResult.allowed /\ ~otherResult.allowed

(***************************************************************************)
(* Properties of resolveState (state-resolution.ts)                         *)
(***************************************************************************)
Resolved == pc = "resolveState"

OrdersOf(n) == {p \in [1..n -> 1..n] : \A i, j \in 1..n : p[i] = p[j] => i = j}

\* the state sets in the order p, the sets of `flipped` with their events reversed
Rearranged(p, flipped) ==
    [i \in 1..Len(stateSets) |->
        IF i \in flipped THEN Reverse(stateSets[p[i]]) ELSE stateSets[p[i]]]

\* C1: resolveState returns the same set of state events for every permutation
\* of the input state sets and every ordering of the events inside each set.
C1_Commutative ==
    Resolved =>
        \A p \in OrdersOf(Len(stateSets)), flipped \in SUBSET (1..Len(stateSets)) :
            Range(resolveState(roomVersion, Rearranged(p, flipped))) = Range(resolved)

AllSetsEqual == \A i \in 1..Len(stateSets) : stateSets[i] = stateSets[1]

\* C2: for a valid state set S, resolveState(version, [S]) and
\* resolveState(version, [S, S]) return exactly the events of S.
C2_Idempotent ==
    (Resolved /\ Len(stateSets) >= 1 /\ AllSetsEqual)
    => Range(resolved) = Range(stateSets[1])

\* [S, S] with power levels, a second member and a name in S has been resolved
\* by the v2 algorithm to S
C2_Witness ==
    /\ Resolved /\ Len(stateSets) = 2 /\ AllSetsEqual
    /\ roomVersion = "10"
    /\ stateSets[1] = <<CreateEvent, JoinA, Levels1, JoinB, Name2>>
    /\ Range(resolved) = Range(stateSets[1])

\* the slots that occur in the state sets
InputSlots == {<<e.type, e.state_key>> : e \in UNION {Range(stateSets[i]) : i \in 1..Len(stateSets)}}

\* the events set i holds for a slot (none or one)
Holds(i, slot) == {e \in Range(stateSets[i]) : <<e.type, e.state_key>> = slot}

\* the event IDs the sets hold for a slot
IdsOf(slot) == {e.event_id : e \in UNION {Holds(i, slot) : i \in 1..Len(stateSets)}}

InEverySet(slot) == \A i \in 1..Len(stateSets) : Holds(i, slot) # {}

UnconflictedSlots ==
    {<<separated.unconflicted[i].type, separated.unconflicted[i].state_key>> :
        i \in 1..Len(separated.unconflicted)}

ConflictedSlots ==
    {<<separated.conflicted[i][1].type, separated.conflicted[i][1].state_key>> :
        i \in 1..Len(separated.conflicted)}

ResolvedIds == {resolved[i].event_id : i \in 1..Len(resolved)}

Partitioned == Resolved /\ separated # NoEvent

\* C4 as claimed: a slot is unconflicted whenever every set omits it or holds
\* the same event ID for it, and that event enters the result without an
\* authorization gate; a slot is conflicted only when two sets differ on it.
C4_AgreedOrOmittedIsUnconflicted ==
    Partitioned =>
        \A slot \in InputSlots :
            /\ Cardinality(IdsOf(slot)) = 1 => (slot \in UnconflictedSlots /\ IdsOf(slot) \subseteq ResolvedIds)
            /\ slot \in ConflictedSlots => Cardinality(IdsOf(slot)) > 1

\* C4 amended: a slot is unconflicted iff every set holds it with the same
\* event ID; a slot some set omits, or on which two sets differ, is conflicted,
\* and every slot of the input is one or the other.
C4_UnconflictedIffInEverySet ==
    Partitioned =>
        \A slot \in InputSlots :
            /\ slot \in UnconflictedSlots <=> (InEverySet(slot) /\ Cardinality(IdsOf(slot)) = 1)
            /\ slot \in ConflictedSlots <=> ~(InEverySet(slot) /\ Cardinality(IdsOf(slot)) = 1)
            /\ slot \in UnconflictedSlots => IdsOf(slot) \subseteq ResolvedIds

\* a slot that one set omits and the other holds has been classified as
\* conflicted, and its only event failed the authorization gate
C4_Witness ==
    /\ Partitioned
    /\ \E slot \in ConflictedSlots :
          /\ Cardinality(IdsOf(slot)) = 1
          /\ ~InEverySet(slot)
          /\ IdsOf(slot) \cap ResolvedIds = {}

NameSlot == <<"m.room.name", "">>

\* the events the two branches agree on
CommonState == SeqFilter(stateSets[1], Range(stateSets[1]) \cap Range(stateSets[2]))

\* content of the agreed m.room.power_levels event, empty when there is none
CommonLevels ==
    IF \E e \in Range(CommonState) : e.type = "m.room.power_levels"
    THEN (CHOOSE e \in Range(CommonState) : e.type = "m.room.power_levels").content
    ELSE << >>

CommonPowerOf(u) ==
    IF "users" \in DOMAIN CommonLevels /\ u \in DOMAIN CommonLevels.users
    THEN CommonLevels.users[u]
    ELSE IF "users_default" \in DOMAIN CommonLevels THEN CommonLevels.users_default
    ELSE 0

\* e1 wins over e2: higher sender power, then smaller origin_server_ts, then
\* smaller event_id
WinsFork(e1, e2) ==
    \/ CommonPowerOf(e1.sender) > CommonPowerOf(e2.sender)
    \/ /\ CommonPowerOf(e1.sender) = CommonPowerOf(e2.sender)
       /\ \/ e1.origin_server_ts < e2.origin_server_ts
          \/ /\ e1.origin_server_ts = e2.origin_server_ts
             /\ IdRank(e1.event_id) < IdRank(e2.event_id)

\* two branches of a v2 room that differ in the m.room.name slot only, each
\* candidate authorized against the state they agree on
IsNameFork ==
    /\ Resolved
    /\ roomVersion \in DOMAIN ROOM_VERSIONS /\ roomVersion # "1"
    /\ Len(stateSets) = 2
    /\ Holds(1, NameSlot) # {} /\ Holds(2, NameSlot) # {}
    /\ Holds(1, NameSlot) # Holds(2, NameSlot)
    /\ \A slot \in InputSlots \ {NameSlot} : Holds(1, slot) = Holds(2, slot)
    /\ \A e \in Holds(1, NameSlot) \cup Holds(2, NameSlot) :
          checkEventAuth(e, CommonState, roomVersion).allowed

\* C3: in a fork on one non-auth slot with both candidates authorized, the
\* resolved state holds the event whose sender has the higher power level,
\* on equal power the smaller origin_server_ts, then the smaller event_id.
C3_ForkWinner ==
    IsNameFork =>
        \A e1 \in Holds(1, NameSlot) \cup Holds(2, NameSlot) :
            (\A e2 \in (Holds(1, NameSlot) \cup Holds(2, NameSlot)) \ {e1} : WinsFork(e1, e2))
            => e1 \in Range(resolved)

\* the distinct events the state sets hold for a slot
Candidates(slot) == UNION {Holds(i, slot) : i \in 1..Len(stateSets)}

\* greatest depth, and among the events of that depth the smallest event_id
WinsByDepth(w, slot) ==
    \A c \in Candidates(slot) \ {w} :
        \/ c.depth < w.depth
        \/ c.depth = w.depth /\ IdRank(w.event_id) < IdRank(c.event_id)

\* C29: in a version 1 room the resolved state holds, for every slot of the
\* input state sets, exactly the event of greatest depth (on equal depth the
\* lexicographically smallest event_id), a slot with a single distinct event
\* keeps that event, and nothing else is in the result.
C29_V1GreatestDepth ==
    (Resolved /\ roomVersion = "1")
    => /\ Len(resolved) = Cardinality(InputSlots)
       /\ \A slot \in InputSlots :
             \E w \in Candidates(slot) : w \in Range(resolved) /\ WinsByDepth(w, slot)

\* a version 1 resolution with a slot decided by depth and a slot decided by
\* event_id between events of equal depth
C29_Witness ==
    /\ Resolved /\ roomVersion = "1"
    /\ \E slot \in InputSlots :
          \E c1, c2 \in Candidates(slot) : c1.depth < c2.depth /\ c2 \in Range(resolved)
    /\ \E slot \in InputSlots :
          \E c1, c2 \in Candidates(slot) :
              /\ c1.depth = c2.depth /\ c1.event_id # c2.event_id
              /\ c1 \in Range(resolved)

\* C30: resolveState applies v1 iff the room version is "1", v2 for the
\* versions 2 to 12, and neither algorithm for a version string that is not in
\* the registry.
C30_Dispatch ==
    (Resolved /\ stateSets # << >>)
    => /\ roomVersion = "1" => resolved = resolveStateV1(stateSets)
       /\ roomVersion \in DOMAIN ROOM_VERSIONS \ {"1"}
            => resolved = resolveStateV2(stateSets, roomVersion)
       /\ roomVersion \notin DOMAIN ROOM_VERSIONS
            => /\ resolved # resolveStateV1(stateSets)
               /\ resolved # resolveStateV2(stateSets, roomVersion)

\* the part of C30 the code keeps: v1 for version "1", v2 for versions 2 to 12
C30_RegisteredDispatch ==
    Resolved
    => /\ roomVersion = "1" => resolved = resolveStateV1(stateSets)
       /\ roomVersion \in DOMAIN ROOM_VERSIONS \ {"1"}
            => resolved = resolveStateV2(stateSets, roomVersion)

\* the events of the result in a slot
ResolvedIn(slot) == {e \in Range(resolved) : <<e.type, e.state_key>> = slot}

Agreed(slot) == InEverySet(slot) /\ Cardinality(Candidates(slot)) = 1

\* C40: for two or more state sets resolved by resolveStateV2, every slot for
\* which all sets hold the same event is in the result with exactly that
\* event, the result holds at most one event per slot, and every event of the
\* result is an event of the input sets.
C40_AgreedStateUntouched ==
    Partitioned =>
        /\ \A slot \in InputSlots : Agreed(slot) => ResolvedIn(slot) = Candidates(slot)
        /\ \A slot \in InputSlots : Cardinality(ResolvedIn(slot)) <= 1
        /\ \A i, j \in 1..Len(resolved) : <<resolved[i].type, resolved[i].state_key>> = <<resolved[j].type, resolved[j].state_key>> => i = j
        /\ Range(resolved) \subseteq UNION {Candidates(slot) : slot \in InputSlots}

\* two sets that agree on the create event and on @a's membership and differ
\* on the power levels, on @b's membership and on the name have been resolved:
\* a conflicted event was dropped and a conflicted event was kept
C40_Witness ==
    /\ Partitioned /\ roomVersion = "10"
    /\ \E slot \in InputSlots : Agreed(slot) /\ ResolvedIn(slot) = Candidates(slot)
    /\ \E slot \in InputSlots : ~Agreed(slot) /\ Cardinality(Candidates(slot)) = 2 /\ Cardinality(ResolvedIn(slot)) = 1
    /\ \E slot \in InputSlots : ~Agreed(slot) /\ ResolvedIn(slot) = {}

(***************************************************************************)
(* Properties of the incremental form (state-resolution-v1.ts)              *)
(***************************************************************************)
\* the events that occupy the new event's slot in the current state
Occupants ==
    {e \in Range(currentState) :
        /\ "state_key" \in DOMAIN newEvent
        /\ e.type = newEvent.type /\ e.state_key = newEvent.state_key}

\* both forms have run on a new state event whose slot holds a different event
ConflictCompared ==
    /\ pc = "resolveStateFull"
    /\ Occupants # {}
    /\ \A e \in Occupants : e.event_id # newEvent.event_id

\* C5: when the new event's slot is occupied by a different event,
\* resolveStateWithNewEvent yields the same resolved state set and the same
\* rejected events as the full resolveState on [C, C with the slot replaced].
C5_IncrementalAgreesWithFull ==
    ConflictCompared =>
        /\ Range(incremental.resolvedState) = Range(full.resolvedState)
        /\ incremental.rejectedEvents = full.rejectedEvents
        /\ incremental.hadConflicts = full.hadConflicts

\* both forms have run on a conflict in which the first event in resolution
\* order failed authorization and the other one won
C5_Witness ==
    /\ ConflictCompared
    /\ Len(incremental.rejectedEvents) = 1
    /\ Cardinality(Range(incremental.resolvedState)) = Len(currentState)
    /\ full.hadConflicts

\* both forms have run on a conflict in which the new event replaced the
\* current one
C5_WitnessReplaced ==
    /\ ConflictCompared
    /\ newEvent \in Range(incremental.resolvedState)
    /\ newEvent \in Range(full.resolvedState)

(***************************************************************************)
(* Properties of the remote signing keys (federation-keys.ts)               *)
(***************************************************************************)
\* at least one key of verify_keys validly signs the response itself
SelfVerifies(keyResponse) ==
    \E i \in 1..Len(keyResponse.verify_keys) :
        /\ ValidKeyFormat(keyResponse.verify_keys[i].key)
        /\ verifySignature(keyResponse, keyResponse.server_name, keyResponse.verify_keys[i].key_id, keyResponse.verify_keys[i].key)

\* every response the origin may serve in a run
AllResponses == OriginResponses \cup {RotatedResponse(t) : t \in 1..MaxClock}

\* the row is one of a response of the server that verifies itself
FromSelfVerifiedResponse(row) ==
    \E r \in AllResponses :
        /\ SelfVerifies(r)
        /\ row \in Range(fetchKeysFromRemote("ok", r, ServerName, row.fetched_at))

\* the rows in the caches and the rows held or returned by a call
AcceptedRows == Range(kvCache) \cup Range(remote_server_keys) \cup UNION {Range(calls[c].keys) : c \in Callers}

\* C21: a key response is accepted (its keys returned, used or cached) only if
\* one of its verify_keys validly signs it: every row in the KV entry, in the
\* D1 table or in the hands of a caller comes from a self-verifying response.
C21_SelfVerifiedOnly == \A row \in AcceptedRows : FromSelfVerifiedResponse(row)

\* the part of C21 that holds: a response of another server is never accepted
C21_OwnServerOnly == \A row \in AcceptedRows : row.public_key # "Ky"

\* the call verifies an object correctly signed under ed25519:a
VerifiesUnderA(call) == call.keyId = KeyA /\ verifySignature(call.obj, ServerName, KeyA, "Ka")

\* the rows of ed25519:a as an old key (valid_from 0, valid_until = expired_ts)
OldRowsOfA(rows) == {r \in Range(rows) : r.key_id = KeyA /\ r.valid_from = 0}

\* C22: once ed25519:a is an old key with expired_ts = T, a correctly signed
\* object verifies under it when its timestamp is before T and fails to
\* verify when its timestamp is after T.
C22_KeyRotation ==
    \A c \in Callers : \A old \in OldRowsOfA(calls[c].keys) :
        (calls[c].pc = "done" /\ VerifiesUnderA(calls[c]) /\ calls[c].obj.origin_server_ts <= clock) =>
            /\ calls[c].obj.origin_server_ts < old.valid_until => calls[c].result = "true"
            /\ calls[c].obj.origin_server_ts > old.valid_until => calls[c].result = "false"

\* C22, second sentence: an expired key is retained and usable: a call
\* answered from the D1 table that holds ed25519:a as an old key verifies an
\* object signed before the expiry.
C22_ExpiredKeyRetained ==
    [][\A c \in Callers : \A old \in OldRowsOfA(remote_server_keys) :
          (/\ calls[c].pc = "d1Select" /\ calls'[c].pc = "done"
           /\ VerifiesUnderA(calls[c])
           /\ calls[c].obj.origin_server_ts < old.valid_until)
          => calls'[c].result = "true"]_vars

\* C23: with no key cached and the origin out of reach, verifyRemoteSignature
\* returns false and does not throw.
C23_ReturnsFalseNeverThrows ==
    \A c \in Callers : (calls[c].pc = "done" /\ calls[c].path = "failed") => calls[c].result = "false"

\* C24: when the fetch fails, fetchRemoteServerKeys returns the rows of the
\* server in the D1 table, expired or old as they may be, and fails only when
\* the table holds none.  (Stated for a table whose unexpired rows are the
\* ones the call read, so that no concurrent write is involved.)
C24_StaleFallback ==
    [][\A c \in Callers :
          (/\ calls[c].pc = "fetch" /\ calls'[c].pc = "done"
           /\ calls[c].dbKeys = SelectNotExpired(remote_server_keys, clock))
          => IF remote_server_keys = << >> THEN calls'[c].path = "failed"
             ELSE calls'[c].path = "fallback" /\ calls'[c].keys = remote_server_keys]_vars

\* C25: at most one request for the keys of the server is in flight.
C25_SingleFlight == Cardinality(InFlight) <= 1

\* C26: the fetched_at of the stored row of a key never decreases.
C26_FetchedAtNeverDecreases ==
    [][\A i \in 1..Len(remote_server_keys) : remote_server_keys'[i].fetched_at >= remote_server_keys[i].fetched_at]_vars

\* C27: every call that started completes, whether the origin answers or not.
C27_FetchCompletes == \A c \in Callers : (calls[c].pc = "fetch") ~> (calls[c].pc = "done")

\* the part of C27 that holds: the cache lookups and writes never block a call
C27_LocalStepsComplete == \A c \in Callers : (calls[c].pc \in {"kvGet", "d1Select", "d1Write", "kvPut"}) ~> (calls[c].pc \in {"fetch", "done"})

(***************************************************************************)
(* Properties of the outbound federation requests                           *)
(***************************************************************************)
\* the request carries Authorization: X-Matrix origin, destination, key, sig
CarriesXMatrix(request) ==
    /\ Has(request.headers, "Authorization")
    /\ request.headers.Authorization.scheme = "X-Matrix"
    /\ request.headers.Authorization.origin = LocalServerName
    /\ request.headers.Authorization.destination = request.destination
    /\ request.headers.Authorization.key = LocalSigningKey.keyId
    /\ request.headers.Authorization.sig.by = LocalSigningKey.privateKeyJwk

\* C28: every request sent to a remote homeserver's federation API carries
\* an Authorization header of the X-Matrix scheme with origin, destination,
\* key and sig.
C28_EveryRequestCarriesXMatrix == \A i \in 1..Len(outbound) : CarriesXMatrix(outbound[i])

\* the part of C28 that holds: the requests of makeFederationRequest carry it
C28_MakeFederationRequestCarriesXMatrix == \A i \in 1..Len(outbound) : Has(outbound[i].headers, "Accept") => CarriesXMatrix(outbound[i])

====
